---- MODULE Spec2Model ----
(***************************************************************************)
(* A model of the NEL collector's report pipeline (pkg/collector):         *)
(*   - HotSwap      (hotswap.go)  : RWMutex-protected handler with Swap,   *)
(*                                  ServeHTTP and Close                    *)
(*   - Pipeline     (pipeline.go) : ingress checks, bounded channel,       *)
(*                                  worker pool, processor chain, Close    *)
(* Requests, Swap/Close calls and workers are goroutines; every access to  *)
(* shared state (the mutex, the handler field, the channel) is one step.   *)
(***************************************************************************)
EXTENDS Integers, Sequences, FiniteSets, TLC

\* ------------------------------------------------------------------ bounds
NumPipelines == 2
NumWorkers == 2
QueueCap == 1
MaxReqs == 2
MaxOps == 2
MaxProcs == 2
MaxEntries == 2
MaxLoads == 2
MaxExchanges == 3
MaxBytes == 2
MaxReports == 3
MaxRuns == 2
MaxRaw == 2
MaxCalls == 2

Pipelines == 1..NumPipelines
Workers == 1..NumWorkers
Reqs == 1..MaxReqs
Ops == 1..MaxOps
ProcIds == 1..MaxProcs

\* the nil handler / no batch / no writer
None == 0

\* ------------------------------------------------- HTTP constants (net/http)
StatusOK == 200
StatusNoContent == 204
StatusBadRequest == 400
StatusMethodNotAllowed == 405

Methods == {"POST", "GET", "OPTIONS"}
ContentTypes == {"application/reports+json", "application/json"}

Bodies == {"valid", "garbled"}

\* What a request carries, as far as ingress looks at it: the method, the
\* Content-Type header and a body that NewReportBatch can decode ("valid") or
\* not.  A part that ingress does not get to read is left "unread".
Uploads ==
    {u \in [method : Methods, ctype : ContentTypes \cup {"unread"},
            body : Bodies \cup {"unread"}] :
        /\ (u.ctype = "unread") = (u.method # "POST")
        /\ (u.body = "unread") = (u.ctype # "application/reports+json")}

VARIABLES
    hc,          \* HotSwap.hc: the installed handler (a pipeline) or None
    mu,          \* HotSwap.mu: [readers, writer]; writer is the op holding rw.w
    op,          \* Swap / Close calls on the HotSwap, one goroutine each
    req,         \* HTTP requests through HotSwap.ServeHTTP, one goroutine each
    c,           \* Pipeline.c: the buffered channel of each pipeline
    closed,      \* whether close(p.c) has run
    worker,      \* the worker goroutines of each pipeline
    processors,  \* Pipeline.processors
    batch,       \* the ReportBatch of each upload, with its processing history
    closeReturned, \* pipelines whose Close has returned
    bufferSize,  \* cap(p.c), the bufferSize given to NewPipeline
    lastSwap,    \* the argument of the Swap that returned last (-1: none yet)
    load,        \* the last Pipeline.LoadFromConfig call: arguments and outcome
    nLoads,      \* AddProcessor / LoadFromConfig calls made so far
    exch,        \* the OPTIONS / CORS exchanges served so far, with their responses
    ann,         \* Annotations.Annotations: the map of each annotation store
    alias,       \* the pairs of annotations whose byte slices share a backing array
    annOp,       \* the last annotation operation, and the run of Writes it ends
    pb,          \* a batch in the hands of the core processors, and their sinks
    dumper,      \* the last DumpReportsAsCLF the registered loader was asked for
    codec,       \* the last use of a report codec: what went in and what came out
    ingress      \* the direct calls of Pipeline.ProcessReports, each with its outcome

\* the state of HotSwap and of the running pipelines, the processor lists aside
servingVars == <<hc, mu, op, req, c, closed, worker, batch, closeReturned,
                 bufferSize, lastSwap>>
\* the bookkeeping of the configuration loader
configVars == <<load, nLoads>>
\* the log of the CORS exchanges
corsVars == <<exch>>
\* the annotation stores
annVars == <<ann, alias, annOp>>
\* what the serving actions leave alone
\* the batch the core processors work on
coreVars == <<pb, dumper>>
\* the record of the codecs
codecVars == <<codec>>
\* the log of the ProcessReports calls made directly
ingressVars == <<ingress>>
libVars == <<configVars, corsVars, annVars, coreVars, codecVars, ingressVars>>

vars == <<hc, mu, op, req, c, closed, worker, processors, batch, closeReturned,
          bufferSize, lastSwap, load, nLoads, exch, ann, alias, annOp, pb, dumper, codec,
          ingress>>

\* --------------------------------------------------------------- helpers
\* The processor list pipeline p is built with (AddProcessor calls made
\* before the pipeline is handed to the HotSwap): pipelines differ in the
\* order of their processors.
Rotation(k) == [i \in 1..MaxProcs |-> ((i + k - 1) % MaxProcs) + 1]

\* The bufferSize pipeline p is built with: pipelines differ in the capacity
\* of their queues as well.
Capacity(p) == QueueCap + p - 1

\* The processors whose output sink can fail (a writer returning an error).
Flaky == {1}

\* sync.WaitGroup counter: workers that have not run wg.Done yet
wgCount(p) == Cardinality({w \in Workers : worker[p][w].pc # "exit"})

Parked(p) == {w \in Workers : worker[p][w].pc = "parked"}

\* (ingress that forgets the method check)
ProcessReportsChecks_noMethodCheck(method, ctype, body) ==
    IF ctype # "application/reports+json"
    THEN [status |-> StatusBadRequest, ret |-> "errContentType"]
    ELSE IF body # "valid"
    THEN [status |-> StatusBadRequest, ret |-> "errDecode"]
    ELSE [status |-> StatusNoContent, ret |-> "none"]

\* (ingress that leaves the status of an accepted upload at the default)
ProcessReportsChecks_no204(method, ctype, body) ==
    IF method # "POST"
    THEN [status |-> StatusMethodNotAllowed, ret |-> "errMethod"]
    ELSE IF ctype # "application/reports+json"
    THEN [status |-> StatusBadRequest, ret |-> "errContentType"]
    ELSE IF body # "valid"
    THEN [status |-> StatusBadRequest, ret |-> "errDecode"]
    ELSE [status |-> StatusOK, ret |-> "none"]

\* The checks of Pipeline.ProcessReports before the enqueue attempt and the
\* status each one answers with; NewReportBatch(r, clock) returns an error
\* exactly for a body that is not "valid".
ProcessReportsChecks(method, ctype, body) ==
    IF method # "POST"
    THEN [status |-> StatusMethodNotAllowed, ret |-> "errMethod"]
    ELSE IF ctype # "application/reports+json"
    THEN [status |-> StatusBadRequest, ret |-> "errContentType"]
    ELSE IF body # "valid"
    THEN [status |-> StatusBadRequest, ret |-> "errDecode"]
    ELSE [status |-> StatusNoContent, ret |-> "none"]

\* What ProcessReports does with a request, in the order it does it: the
\* method check, the Content-Type check, clock.Now() and the decoding of the
\* body (both in NewReportBatch), the 204 and the send.  It returns at the
\* first check that fails.
ProcessReportsSteps(method, ctype, body) ==
    IF method # "POST"
    THEN <<"Method">>
    ELSE IF ctype # "application/reports+json"
    THEN <<"Method", "Content-Type">>
    ELSE IF body # "valid"
    THEN <<"Method", "Content-Type", "Now", "Decode">>
    ELSE <<"Method", "Content-Type", "Now", "Decode", "204", "send">>

\* The pipelines run on a simulated clock: Now() is time.Unix(0, 0) at every
\* call.  A batch that has not been stamped has the zero Time.
Now == 0
ZeroTime == -1

\* How often ProcessReports calls clock.Now() for an upload: once, when it
\* sets up the batch after the method and content-type checks.
ClockReads(method, ctype) ==
    IF method = "POST" /\ ctype = "application/reports+json" THEN 1 ELSE 0

\* (an ingress that forgets to stamp the batch)
Stamp_unset(now) == ZeroTime

\* reports.Time = clock.Now()
Stamp(now) == now

\* (a send that also proceeds when the buffer is exactly at capacity)
SendReady_offByOne(p) == Parked(p) # {} \/ Len(c[p]) <= bufferSize[p]

\* select { case p.c <- reports: ... default: ... }: the send case is ready
\* when a receiver is blocked on the channel or the buffer has room.
SendReady(p) == Parked(p) # {} \/ Len(c[p]) < bufferSize[p]

\* The buffer of p.c is at capacity and no receiver is blocked on it.
QueueFull(p) == Len(c[p]) >= bufferSize[p] /\ Parked(p) = {}

\* ------------------------------------------- Pipeline.LoadFromConfig
\* Contexts: context.Background() and the context of request r (r.Context());
\* NoCtx stands for "no context received".
Background == 0
RequestCtx(r) == r
NoCtx == -1

\* An entry of the `processor` array: a table (obj) with a `type` string
\* ("" when the field is missing) or a `type` that is not a string, such as
\* type = 5 ("<number>"), or some other value such as 5.
EntryTypes == {"", "UnknownType", "AlwaysThrowsError",
               "AlwaysThrowsErrorWithContext", "KeepNelReports", "WithContext"}
Entries == {[obj |-> FALSE, type |-> ""]}
           \cup {[obj |-> TRUE, type |-> t] : t \in EntryTypes \cup {"<number>"}}

SeqsUpTo(S, n) == UNION {[1..k -> S] : k \in 0..n}

\* A configuration document: whether it is well-formed TOML, and what its
\* `processor` key holds: nothing, a scalar (processor = 5) or an array.
Docs ==
    {[syntax |-> "bad", field |-> "absent", entries |-> <<>>],
     [syntax |-> "ok", field |-> "absent", entries |-> <<>>],
     [syntax |-> "ok", field |-> "scalar", entries |-> <<>>]}
    \cup {[syntax |-> "ok", field |-> "array", entries |-> es] :
             es \in SeqsUpTo(Entries, MaxEntries)}

\* errors: the message format and the values formatted into it (the
\* messages are written here without their quote characters)
NoError == [msg |-> "nil", type |-> "", idx |-> -1]
Errorf(m, t, i) == [msg |-> m, type |-> t, idx |-> i]

\* toml.Unmarshal(configBytes, &config) into Processors []toml.Primitive: it
\* fails on malformed TOML, on a `processor` that is not an array and on an
\* array whose elements are not all of one type (processor = [{...}, 5]);
\* Processors stays nil when the key is absent.
Homogeneous(es) == \A i, j \in 1..Len(es) : es[i].obj = es[j].obj
TomlUnmarshal(doc) ==
    IF doc.syntax = "bad" \/ doc.field = "scalar"
       \/ (doc.field = "array" /\ ~Homogeneous(doc.entries))
    THEN [err |-> TRUE, isNil |-> TRUE, Processors |-> <<>>]
    ELSE [err |-> FALSE, isNil |-> (doc.field = "absent"), Processors |-> doc.entries]

\* reportLoaders: the factories registered by name, each a ReportLoaderFunc
\* ("plain") or a ContextReportLoaderFunc ("context"), and whether it
\* returns an error.
reportLoaders ==
    [t \in {"AlwaysThrowsError", "AlwaysThrowsErrorWithContext",
            "KeepNelReports", "WithContext"} |->
        [shape |-> IF t \in {"AlwaysThrowsErrorWithContext", "WithContext"}
                   THEN "context" ELSE "plain",
         fails |-> t \in {"AlwaysThrowsError", "AlwaysThrowsErrorWithContext"}]]

\* (a context-aware loader that is handed a fresh background context)
LoaderCtx_background(shape, ctx) == IF shape = "context" THEN Background ELSE NoCtx

\* The context the factory behind a loader gets to see: ReportLoaderFunc.Load
\* drops ctx, ContextReportLoaderFunc.Load passes it on.
LoaderCtx(shape, ctx) == IF shape = "context" THEN ctx ELSE NoCtx

\* loader.Load(ctx, processorPrimitive): the factory's error, or the
\* processor it built from the entry it was given.
Load(t, ctx, entry) ==
    IF reportLoaders[t].fails
    THEN [err |-> TRUE, processor |-> [type |-> t, config |-> entry, ctx |-> NoCtx]]
    ELSE [err |-> FALSE,
          processor |-> [type |-> t, config |-> entry,
                         ctx |-> LoaderCtx(reportLoaders[t].shape, ctx)]]

\* toml.PrimitiveDecode(processorPrimitive, &processorConfig) into a struct
\* with the one field Type string: it fails on a value that is not a table
\* and on a table whose `type` is not a string.
PrimitiveDecodeFails(e) == ~e.obj \/ e.type = "<number>"

\* (a pipeline that puts a new processor in front of the others)
AddProcessorTo_front(procs, processor) == <<processor>> \o procs

\* p.processors = append(p.processors, processor)
AddProcessorTo(procs, processor) == Append(procs, processor)

\* (an entry check that looks the type up before it finds the field missing)
EntryError_lookupFirst(e, idx) ==
    IF PrimitiveDecodeFails(e) THEN Errorf("Processor config 0 must be an object", "", -1)
    ELSE IF e.type \notin DOMAIN reportLoaders
    THEN Errorf("Unknown processor type %s for processor %d", e.type, idx)
    ELSE IF e.type = "" THEN Errorf("Processor config %d is missing type", "", idx)
    ELSE NoError

\* The checks on entry idx (counted from 0) before its factory is called:
\* toml.PrimitiveDecode, whose failure is reported with the index 0
\* written into the message, then the `type` field, then the lookup in
\* reportLoaders.
EntryError(e, idx) ==
    IF PrimitiveDecodeFails(e) THEN Errorf("Processor config 0 must be an object", "", -1)
    ELSE IF e.type = "" THEN Errorf("Processor config %d is missing type", "", idx)
    ELSE IF e.type \notin DOMAIN reportLoaders
    THEN Errorf("Unknown processor type %s for processor %d", e.type, idx)
    ELSE NoError

\* for idx, processorPrimitive := range config.Processors, from position k
\* of es on: the first error ends the loop, with the processors of the
\* earlier entries already added.
RECURSIVE LoadEntries(_, _, _, _)
LoadEntries(procs, es, k, ctx) ==
    IF k > Len(es) THEN [err |-> NoError, processors |-> procs]
    ELSE LET chk == EntryError(es[k], k - 1) IN
         IF chk # NoError THEN [err |-> chk, processors |-> procs]
         ELSE LET res == Load(es[k].type, ctx, es[k]) IN
              IF res.err
              THEN [err |-> Errorf("Could not create a %s for processor %d: %v",
                                   es[k].type, k - 1),
                    processors |-> procs]
              ELSE LoadEntries(AddProcessorTo(procs, res.processor), es, k + 1, ctx)

\* Pipeline.LoadFromConfig(ctx, configBytes) on a pipeline whose processor
\* list is procs: the error returned and the processor list afterwards.
LoadFromConfigResult(procs, ctx, doc) ==
    LET config == TomlUnmarshal(doc) IN
    IF config.err
    THEN [err |-> Errorf("Invalid NEL configuration", "", -1), processors |-> procs]
    ELSE IF config.isNil
    THEN [err |-> Errorf("NEL configuration missing processors", "", -1),
          processors |-> procs]
    ELSE IF Len(config.Processors) = 0
    THEN [err |-> Errorf("NEL configuration processors array must be non-empty", "", -1),
          processors |-> procs]
    ELSE LoadEntries(procs, config.Processors, 1, ctx)

\* no LoadFromConfig call yet
NoLoad == [p |-> None, ctx |-> NoCtx, doc |-> [syntax |-> "ok", field |-> "absent",
                                                entries |-> <<>>],
           before |-> <<>>, after |-> <<>>, err |-> NoError]

\* ------------------------------------------------- Annotations (annotation.go)
\* Two annotation stores, that of a batch and that of one of its reports,
\* and the annotation names in use: x and y on the batch, x on the report.
Stores == {"batch", "report"}
Names == {"x", "y"}
Slots == {<<"batch", "x">>, <<"batch", "y">>, <<"report", "x">>}

\* What Write is given: one byte each.
Payloads == {<<1>>, <<2>>}

\* The capacity bytes.Buffer gives the array it allocates for a first small
\* write.
smallBufferSize == 64

\* An annotation value (interface{}): no entry in the map, nil, a string, or
\* a byte slice, which shows the first Len(bytes) bytes of a backing array
\* of capacity cap (the nil slice has none: cap = 0).
Absent == [kind |-> "absent", bytes |-> <<>>, cap |-> 0]
NilValue == [kind |-> "nil", bytes |-> <<>>, cap |-> 0]
StringValue == [kind |-> "string", bytes |-> <<>>, cap |-> 0]
BytesValue(bs, cap) == [kind |-> "bytes", bytes |-> bs, cap |-> cap]

\* a value as a reader sees it: its type and, for a byte slice, its bytes
Content(v) == [kind |-> v.kind, bytes |-> v.bytes]

\* Byte slices may share a backing array: al is the set of pairs {x, y} of
\* slots whose slices do.  Every slice starts at the start of its array.
Group(al, x) == {x} \cup {y \in Slots : {x, y} \in al}
Detach(al, x) == {pr \in al : x \notin pr}
Attach(al, x, y) == Detach(al, x) \cup {{x, z} : z \in Group(Detach(al, x), y)}

\* GetAnnotation(name): a.Annotations[name], nil when there is no entry
GetAnnotation(a, x) == IF a[x].kind = "absent" THEN NilValue ELSE a[x]

\* SetAnnotation(name, value): a.Annotations[name] = value
SetAnnotationIn(a, x, v) == [a EXCEPT ![x] = v]

\* (a lookup that never finds the name)
Present_never(a, x) == FALSE

\* result, present := a.Annotations[name]
Present(a, x) == a[x].kind # "absent"

\* GetOrAddAnnotation(name, defaultValue): whether it stores the default,
\* and what it returns
GetOrAddResult(a, x, d) ==
    IF Present(a, x) THEN [added |-> FALSE, ret |-> a[x]]
    ELSE [added |-> TRUE, ret |-> d]

\* array contents bs after p has been written at offset at, as far as a
\* slice of length Len(bs) shows them
Overwrite(bs, at, p) ==
    [k \in 1..Len(bs) |-> IF at < k /\ k <= at + Len(p) THEN p[k - at] ELSE bs[k]]

\* bytes.NewBuffer(b) followed by buf.Write(p): the buffer works on the
\* array of b itself, and p goes into that array, right behind the bytes of
\* b, when the array has room for it.
FitsInPlace(b, p) == Len(p) <= b.cap - Len(b.bytes)

\* Otherwise the bytes of b and p go to a new array: of capacity
\* smallBufferSize when b is the nil slice, of twice the old capacity and
\* Len(p) more otherwise.
GrownCap(b, p) == IF b.cap = 0 THEN smallBufferSize ELSE 2 * b.cap + Len(p)

\* (a writer that starts from an empty buffer every time)
WriteBase_empty(value) == BytesValue(<<>>, 0)

\* var b []byte; if value != nil { b = value.([]byte) }
WriteBase(value) == IF value.kind = "bytes" THEN value ELSE BytesValue(<<>>, 0)

\* (a writer that takes any value for a byte slice)
AssertionFails_never(value) == FALSE

\* b, ok = value.([]byte) on a value that is not nil: ok is false for any
\* value of another type
AssertionFails(value) == value.kind = "string"

\* annotationWriter.Write(p) on the writer of slot x: the stores and the
\* sharing afterwards, the count and the error returned.  A write in place
\* also changes what the other slices on that array show from the offset
\* of the write on.
WriteResult(a, al, x, p) ==
    LET value == GetAnnotation(a, x) IN
    IF AssertionFails(value)
    THEN [ann |-> a, alias |-> al, n |-> 0, err |-> TRUE]
    ELSE LET b == WriteBase(value)
             at == Len(b.bytes)
         IN  IF FitsInPlace(b, p)
             THEN [ann |-> [sl \in Slots |->
                              IF sl = x THEN BytesValue(b.bytes \o p, b.cap)
                              ELSE IF sl \in Group(al, x) /\ value.kind = "bytes"
                              THEN [a[sl] EXCEPT !.bytes = Overwrite(@, at, p)]
                              ELSE a[sl]],
                   alias |-> al, n |-> Len(p), err |-> FALSE]
             ELSE [ann |-> SetAnnotationIn(a, x, BytesValue(b.bytes \o p, GrownCap(b, p))),
                   alias |-> Detach(al, x), n |-> Len(p), err |-> FALSE]

\* What a caller passes as a value: nil, a string, a byte slice of its own
\* ([]byte{1}, in an array of its own), or the byte slice it got from
\* GetAnnotation on some slot.
Defaults == {<<"nil">>, <<"string">>, <<"fresh">>}
ValueSources == Defaults \cup Slots
ArgValue(a, src) ==
    IF src = <<"nil">> THEN NilValue
    ELSE IF src = <<"string">> THEN StringValue
    ELSE IF src = <<"fresh">> THEN BytesValue(<<1>>, 1)
    ELSE a[src]
\* a slot is a source only while it holds a byte slice
IsSource(a, src) == src \in Slots => a[src].kind = "bytes"

\* the sharing once the value from src has been stored in slot x
Stored(al, x, src) ==
    IF src = x THEN al
    ELSE IF src \in Slots THEN Attach(al, x, src)
    ELSE Detach(al, x)

NoContent == [kind |-> "absent", bytes |-> <<>>]
NoAnnOp == [kind |-> "none", slot |-> <<"batch", "x">>, present |-> FALSE,
            arg |-> NoContent, ret |-> NoContent, n |-> 0, err |-> FALSE,
            base |-> NoContent, written |-> <<>>, writes |-> 0]

\* ------------------------------------------ core processors (package core)
\* The reports the processors are tried on: NEL reports that reached the
\* server, with and without an HTTP error, one that did not, and two
\* reports of other types.
SampleReports ==
    {[ReportType |-> "network-error", URL |-> "a", Type |-> "ok", StatusCode |-> 200],
     [ReportType |-> "network-error", URL |-> "b", Type |-> "http.error", StatusCode |-> 404],
     [ReportType |-> "network-error", URL |-> "a", Type |-> "dns.unreachable", StatusCode |-> 0],
     [ReportType |-> "another-error", URL |-> "a", Type |-> "", StatusCode |-> 0],
     [ReportType |-> "csp", URL |-> "b", Type |-> "ok", StatusCode |-> 200]}

\* (a filter that puts every report it keeps in front of the others)
KeepNelReports_prepend(reports) ==
    LET F[k \in 0..Len(reports)] ==
            IF k = 0 THEN <<>>
            ELSE IF reports[k].ReportType = "network-error"
                 THEN <<reports[k]>> \o F[k - 1]
                 ELSE F[k - 1]
    IN  F[Len(reports)]

\* (a filter that loses the first report it keeps)
KeepNelReports_dropFirst(reports) ==
    LET F[k \in 0..Len(reports)] ==
            IF k = 0 THEN <<>>
            ELSE IF reports[k].ReportType = "network-error"
                 THEN Append(F[k - 1], reports[k])
                 ELSE F[k - 1]
    IN  IF F[Len(reports)] = <<>> THEN <<>> ELSE Tail(F[Len(reports)])

\* KeepNelReports.ProcessReports: the value batch.Reports is given.  F[k] is
\* filtered after the loop has seen the first k reports.
KeepNelReports(reports) ==
    LET F[k \in 0..Len(reports)] ==
            IF k = 0 THEN <<>>
            ELSE IF reports[k].ReportType = "network-error"
                 THEN Append(F[k - 1], reports[k])
                 ELSE F[k - 1]
    IN  F[Len(reports)]

\* strconv.Itoa for the status codes (none is negative)
Digit(d) ==
    CASE d = 0 -> "0" [] d = 1 -> "1" [] d = 2 -> "2" [] d = 3 -> "3"
      [] d = 4 -> "4" [] d = 5 -> "5" [] d = 6 -> "6" [] d = 7 -> "7"
      [] d = 8 -> "8" [] d = 9 -> "9"
RECURSIVE Itoa(_)
Itoa(n) == IF n < 10 THEN Digit(n) ELSE Itoa(n \div 10) \o Digit(n % 10)

\* (a dumper that prints the status code of every NEL report)
CLFResult_alwaysStatus(report) ==
    IF report.ReportType = "network-error"
    THEN Itoa(report.StatusCode)
    ELSE "<" \o report.ReportType \o ">"

\* the result field of the line printed for a report
CLFResult(report) ==
    IF report.ReportType = "network-error"
    THEN IF report.Type = "ok" \/ report.Type = "http.error"
         THEN Itoa(report.StatusCode)
         ELSE report.Type
    ELSE "<" \o report.ReportType \o ">"

\* The batches the dumper is tried on come from one client at the time of
\* the simulated clock; Time is batch.Time as the dumper formats it.
BatchClientIP == "192.0.2.1"
BatchTime == "01/Jan/1970:00:00:00.000 +0000"

\* the line printed for a report, field by field
CLFLine(report) ==
    [ClientIP |-> BatchClientIP, Time |-> BatchTime, URL |-> report.URL,
     result |-> CLFResult(report)]

\* the lines printed for a batch: one Fprintf per report, in the order of
\* batch.Reports
PrintBatchAsCLF(reports) == [k \in 1..Len(reports) |-> CLFLine(reports[k])]

\* What the dest key of a DumpReportsAsCLF entry may hold: nothing, a
\* number, or a string.
Dests == {"<absent>", "<number>", "", "stdout", "annotation", "syslog"}

\* toml.PrimitiveDecode into struct{ Dest string }: a missing key leaves
\* Dest empty, a number is an error.
DecodeDest(dest) ==
    IF dest = "<number>" THEN [err |-> "decode", Dest |-> ""]
    ELSE IF dest = "<absent>" THEN [err |-> "nil", Dest |-> ""]
    ELSE [err |-> "nil", Dest |-> dest]

\* (a loader that falls back to stdout)
DumperFor_defaultStdout(Dest) ==
    IF Dest = "annotation" THEN [err |-> "nil", Writer |-> "nil"]
    ELSE [err |-> "nil", Writer |-> "os.Stdout"]

\* the rest of the loader registered for DumpReportsAsCLF: the processor it
\* builds, given by its Writer field
DumperFor(Dest) ==
    IF Dest = "" THEN [err |-> "missing dest", Writer |-> "none"]
    ELSE IF Dest = "stdout" THEN [err |-> "nil", Writer |-> "os.Stdout"]
    ELSE IF Dest = "annotation" THEN [err |-> "nil", Writer |-> "nil"]
    ELSE [err |-> "invalid dest", Writer |-> "none"]

\* the loader registered for DumpReportsAsCLF
LoadDumper(dest) ==
    LET config == DecodeDest(dest) IN
    IF config.err # "nil" THEN [err |-> config.err, Writer |-> "none"]
    ELSE DumperFor(config.Dest)

\* DumpReportsAsCLF.ProcessReports: where the lines go
SinkOf(Writer) == IF Writer = "nil" THEN "TestResult" ELSE Writer

NoDumper == [dest |-> "<none>", err |-> "nil", Writer |-> "none"]
NoBatch == [made |-> FALSE, Reports |-> <<>>, stdout |-> <<>>, TestResult |-> <<>>,
            runs |-> 0, last |-> "none", by |-> "<none>", before |-> <<>>,
            stdoutBefore |-> <<>>, TestResultBefore |-> <<>>]

\* ------------------------------------------------------- report codecs
\* The body member of a report object, as the decoder reads it: the members
\* the NEL decoder knows (-1 and "<absent>" for a member that is not
\* there), whatever else the object holds, and how the bytes are laid out.
NoBytes == [statusCode |-> -1, type |-> "<absent>", protocol |-> "<absent>",
            other |-> "", layout |-> "none"]
JSONBodies ==
    {[statusCode |-> 200, type |-> "ok", protocol |-> "h2", other |-> "",
      layout |-> "compact"],
     [statusCode |-> 200, type |-> "ok", protocol |-> "h2", other |-> "",
      layout |-> "indented"],
     [statusCode |-> -1, type |-> "dns.unreachable", protocol |-> "<absent>",
      other |-> "", layout |-> "compact"],
     [statusCode |-> -1, type |-> "<absent>", protocol |-> "<absent>",
      other |-> "random: stuff, ignore: 100", layout |-> "indented"]}

\* the report objects of an upload
ReportObjects ==
    [age : {0, 500}, type : {"network-error", "another-error"}, url : {"a"},
     body : JSONBodies]

\* Annotation values: a string or a byte slice, given by its text.
VString(text) == [kind |-> "string", text |-> text]
VBytes(text) == [kind |-> "bytes", text |-> text]
\* the annotation maps tried: the nil map, and one annotation
NoAnnotations == <<>>
AnnotationMaps ==
    {NoAnnotations} \cup {[n \in {"geo"} |-> v] : v \in {VString("US"), VBytes("US")}}

\* NelReport, with Protocol standing for the string fields of the NEL body
\* and StatusCode for the numeric ones
NelReport(age, reportType, url, statusCode, type, protocol, rawBody, annotations) ==
    [Age |-> age, ReportType |-> reportType, URL |-> url,
     StatusCode |-> statusCode, Type |-> type, Protocol |-> protocol,
     RawBody |-> rawBody, Annotations |-> annotations]

\* a member of the body, or the zero value of its field
NumberMember(v) == IF v = -1 THEN 0 ELSE v
StringMember(v) == IF v = "<absent>" THEN "" ELSE v

\* (a decoder that keeps the body of every report)
UnmarshalJSON_keepsBody(obj) ==
    IF obj.type = "network-error"
    THEN NelReport(obj.age, obj.type, obj.url, NumberMember(obj.body.statusCode),
                   StringMember(obj.body.type), StringMember(obj.body.protocol),
                   obj.body, NoAnnotations)
    ELSE NelReport(obj.age, obj.type, obj.url, 0, "", "", obj.body, NoAnnotations)

\* NelReport.UnmarshalJSON: age, type and url are read; the body of a NEL
\* report is decoded into the typed fields, the body of any other report is
\* kept as it is in RawBody.
UnmarshalJSON(obj) ==
    IF obj.type = "network-error"
    THEN NelReport(obj.age, obj.type, obj.url, NumberMember(obj.body.statusCode),
                   StringMember(obj.body.type), StringMember(obj.body.protocol),
                   NoBytes, NoAnnotations)
    ELSE NelReport(obj.age, obj.type, obj.url, 0, "", "", obj.body, NoAnnotations)

\* NelReport.MarshalJSON: the body of a NEL report is written anew from the
\* typed fields, the body of any other report is RawBody as it is.
MarshalJSON(r) ==
    [age |-> r.Age, type |-> r.ReportType, url |-> r.URL,
     body |-> IF r.ReportType = "network-error"
              THEN [statusCode |-> r.StatusCode, type |-> r.Type,
                    protocol |-> r.Protocol, other |-> "", layout |-> "compact"]
              ELSE r.RawBody]

\* The reports the codecs are tried on: NEL reports with typed fields, and
\* reports of another type with a body kept in RawBody.
CodecReports ==
    {NelReport(age, "network-error", "a", sc, t, pr, NoBytes, an) :
        age \in {0, 500}, sc \in {0, 200}, t \in {"", "ok"}, pr \in {"", "h2"},
        an \in AnnotationMaps}
    \cup {NelReport(age, "another-error", "a", 0, "", "", body, an) :
        age \in {0, 500}, body \in JSONBodies, an \in AnnotationMaps}

\* encoding/json on a []byte: base64 in a JSON string, and back
Base64(text) == CASE text = "US" -> "VVM=" [] OTHER -> "base64(" \o text \o ")"
JSONString(text) == [json |-> "string", text |-> text]

\* what encoding/json writes for a value held as interface{}
EncodeValue(v) ==
    IF v.kind = "bytes" THEN JSONString(Base64(v.text)) ELSE JSONString(v.text)
\* what encoding/json stores into an interface{} for a JSON string
DecodeValue(j) == VString(j.text)

\* what encoding/json writes for the []byte field RawBody, and reads back:
\* null for the nil slice, the bytes in base64 otherwise
EncodeBytesField(b) == IF b = NoBytes THEN [json |-> "null", b64 |-> NoBytes]
                       ELSE [json |-> "string", b64 |-> b]
DecodeBytesField(j) == IF j.json = "null" THEN NoBytes ELSE j.b64

\* json.MarshalIndent of one ParsedNelReport: the fields as they are in Go
EncodeParsed(r) ==
    [Age |-> r.Age, ReportType |-> r.ReportType, URL |-> r.URL,
     StatusCode |-> r.StatusCode, Type |-> r.Type, Protocol |-> r.Protocol,
     RawBody |-> EncodeBytesField(r.RawBody),
     Annotations |-> [n \in DOMAIN r.Annotations |-> EncodeValue(r.Annotations[n])]]

\* json.Unmarshal into one ParsedNelReport
DecodeParsed(j) ==
    NelReport(j.Age, j.ReportType, j.URL, j.StatusCode, j.Type, j.Protocol,
              DecodeBytesField(j.RawBody),
              [n \in DOMAIN j.Annotations |-> DecodeValue(j.Annotations[n])])

\* encodeRawReports
encodeRawReports(reports) == [i \in 1..Len(reports) |-> EncodeParsed(reports[i])]

\* (a decoder that loses the last report)
decodeRawReports_short(b) == [i \in 1..(Len(b) - 1) |-> DecodeParsed(b[i])]

\* decodeRawReports
decodeRawReports(b) == [i \in 1..Len(b) |-> DecodeParsed(b[i])]

\* the reports the raw codec is tried on
RawSample ==
    {r \in CodecReports : r.Age = 500 /\ r.StatusCode \in {0, 200}
                          /\ r.Type \in {"", "ok"} /\ r.Protocol = ""
                          /\ r.RawBody.layout \in {"none", "indented"}
                          /\ r.RawBody.type \in {"<absent>", "ok"}}

NoCodec == [op |-> "none", obj |-> <<>>, report |-> <<>>, emitted |-> <<>>,
            back |-> <<>>]

\* ------------------------------------------------------------------- Init
\* A pipeline that has not been built yet has no goroutines ("none").
NoWorker == [pc |-> "none", b |-> None, i |-> 0]
NewWorker == [pc |-> "recv", b |-> None, i |-> 0]
\* ticket: while the batch waits in the buffer of a channel, a number larger
\* than that of every batch that was waiting there when it was sent (0 when
\* it is not waiting).
NewBatch == [acc |-> None, taken |-> 0, calls |-> <<>>, data |-> <<>>, done |-> FALSE,
             ticket |-> 0, Time |-> ZeroTime]
NewReq == [pc |-> "new", method |-> "", ctype |-> "unread",
           body |-> "unread", h |-> None, status |-> 0, ret |-> "none",
           full |-> FALSE, exp |-> -1, epoch |-> 0, clock |-> 0]
NewOp == [pc |-> "new", kind |-> "Swap", arg |-> None, old |-> None, res |-> "none"]

Init ==
    /\ hc = None
    /\ mu = [readers |-> 0, writer |-> None]
    /\ op = [o \in Ops |-> NewOp]
    /\ req = [r \in Reqs |-> NewReq]
    /\ c = [p \in Pipelines |-> <<>>]
    /\ closed = [p \in Pipelines |-> FALSE]
    /\ worker = [p \in Pipelines |-> [w \in Workers |-> NoWorker]]
    /\ processors = [p \in Pipelines |-> <<>>]
    /\ batch = [r \in Reqs |-> NewBatch]
    /\ closeReturned = {}
    /\ bufferSize = [p \in Pipelines |-> 0]
    /\ lastSwap = -1
    /\ load = NoLoad
    /\ pb = NoBatch
    /\ dumper = NoDumper
    /\ codec = NoCodec
    /\ ingress = <<>>
    /\ nLoads = 0
    /\ exch = <<>>
    /\ ann = [sl \in Slots |-> Absent]
    /\ alias = {}
    /\ annOp = NoAnnOp

\* ------------------------------------------------------ HotSwap.ServeHTTP
\* Swap calls that have taken rw.w so far, and whether one is still running
SwapsBegun == Cardinality({o \in Ops : op[o].kind = "Swap" /\ op[o].pc # "new"})
SwapRunning == \E o \in Ops : op[o].kind = "Swap" /\ op[o].pc \notin {"new", "done"}

\* (a reader that enters without registering itself with the lock)
AfterRLock_unregistered(m) == m

\* The lock once a reader has entered: one more active reader.
AfterRLock(m) == [m EXCEPT !.readers = @ + 1]

\* Whether a reader calling RLock enters at once.
ReaderMayEnter == mu.writer = None

\* A request arrives and its goroutine calls h.mu.RLock(): it enters at once
\* unless a writer holds or waits for the lock, in which case the reader is
\* queued until that writer unlocks.
ReqRLock(r) ==
    /\ req[r].pc = "new"
    /\ IF r = 1 THEN TRUE ELSE req[r - 1].pc # "new"
    /\ LET started == [req[r] EXCEPT !.epoch = SwapsBegun,
                           !.exp = IF SwapRunning THEN -1 ELSE lastSwap]
       IN  IF ReaderMayEnter
           THEN /\ mu' = AfterRLock(mu)
                /\ req' = [req EXCEPT ![r] = [started EXCEPT !.pc = "dispatch"]]
           ELSE /\ mu' = mu
                /\ req' = [req EXCEPT ![r] = [started EXCEPT !.pc = "rwait"]]
    /\ UNCHANGED <<hc, op, c, closed, worker, processors, batch,
                   closeReturned, bufferSize, lastSwap>>
    /\ UNCHANGED libVars

\* The handler a request that holds the read lock is dispatched to.
Dispatched(r) == hc

\* h.hc.ServeHTTP(w, r): read the handler field and call it.  A nil handler
\* panics; the deferred RUnlock runs and the request is over.
ReqDispatch(r) ==
    /\ req[r].pc = "dispatch"
    /\ LET seen == IF SwapsBegun = req[r].epoch THEN req[r].exp ELSE -1
           h == Dispatched(r)
       IN  IF h = None
           THEN /\ req' = [req EXCEPT ![r] = [@ EXCEPT !.pc = "done", !.ret = "panic",
                                              !.exp = seen, !.epoch = 0]]
                /\ mu' = [mu EXCEPT !.readers = @ - 1]
           ELSE /\ req' = [req EXCEPT ![r] = [@ EXCEPT !.pc = "serving", !.h = h,
                                              !.exp = seen, !.epoch = 0]]
                /\ mu' = mu
    /\ UNCHANGED <<hc, op, c, closed, worker, processors, batch,
                   closeReturned, bufferSize, lastSwap>>
    /\ UNCHANGED libVars

\* The batches waiting in the buffer of p.c, and the ticket of the next one
\* to be sent there.
Waiting(p) == {c[p][k] : k \in 1..Len(c[p])}
NextTicket(p) ==
    1 + Cardinality({t \in 1..MaxReqs : \E a \in Waiting(p) : batch[a].ticket >= t})

\* (a channel that puts a new batch in front of the buffered ones)
AfterSend_front(q, b) == <<b>> \o q

\* The buffer of a channel after batch b has been sent on it.
AfterSend(q, b) == Append(q, b)

\* The worker state after it has received batch b: straight back to the
\* receive when the processor list is empty.
Received(p, b) ==
    IF Len(processors[p]) = 0 THEN [pc |-> "recv", b |-> None, i |-> 0]
    ELSE [pc |-> "proc", b |-> b, i |-> 1]

\* (a channel that can still be sent on once it is closed)
SendPanics_never(p) == FALSE

\* p.c <- reports on a channel that close(p.c) has closed panics, in a
\* select with a default case as anywhere else.
SendPanics(p) == closed[p]

\* (a plain send, which waits until the channel can take the batch)
DefaultCase_none(p) == FALSE

\* select { case p.c <- reports: ... default: ... }: when the send cannot go
\* ahead at once the default case is taken, whatever the state of pipeline p.
DefaultCase(p) == TRUE

\* (an ingress that reports every upload as dropped)
SendResult_alwaysDropped(sent) == "ErrDropped"

\* What ProcessReports returns after the select: nil from the case that
\* sent the batch, ErrDropped from the default case.
SendResult(sent) == IF sent THEN "nil" ELSE "ErrDropped"

\* The non-blocking send at the end of ProcessReports, for request r on
\* pipeline p (in: the request table once the 204 has been written).  A send
\* on a closed channel panics; a blocked receiver takes the batch directly;
\* otherwise the batch goes into the buffer if there is room, and is dropped
\* if there is none.
Enqueue(r, p, in) ==
    LET wasFull == ~closed[p] /\ QueueFull(p) IN
    IF SendPanics(p)
    THEN /\ req' = [in EXCEPT ![r].ret = "panic"]
         /\ UNCHANGED <<c, worker, batch>>
    ELSE IF ~SendReady(p)
    THEN /\ DefaultCase(p)
         /\ req' = [in EXCEPT ![r].ret = SendResult(FALSE), ![r].full = wasFull]
         /\ UNCHANGED <<c, worker, batch>>
    ELSE IF Parked(p) # {}
    THEN /\ \E w \in Parked(p) :
              worker' = [worker EXCEPT ![p][w] = Received(p, r)]
         /\ batch' = [batch EXCEPT ![r].acc = p, ![r].taken = @ + 1,
                                   ![r].done = (Len(processors[p]) = 0),
                                   ![r].Time = Stamp(Now)]
         /\ req' = [in EXCEPT ![r].ret = SendResult(TRUE), ![r].full = wasFull]
         /\ c' = c
    ELSE /\ c' = [c EXCEPT ![p] = AfterSend(@, r)]
         /\ batch' = [batch EXCEPT ![r].acc = p, ![r].ticket = NextTicket(p),
                                   ![r].Time = Stamp(Now)]
         /\ req' = [in EXCEPT ![r].ret = SendResult(TRUE), ![r].full = wasFull]
         /\ worker' = worker

\* Pipeline.ServeHTTP for the upload u the request carries: OPTIONS is answered by serveCORS, anything else goes
\* through ProcessReports.  When the handler returns (or panics) the deferred
\* h.mu.RUnlock() of HotSwap.ServeHTTP runs.
ReqServe(r) ==
    /\ req[r].pc = "serving"
    /\ \E u \in Uploads :
         LET chk == ProcessReportsChecks(u.method, u.ctype, u.body)
             in == [req EXCEPT ![r] = [@ EXCEPT !.pc = "done", !.method = u.method,
                                       !.ctype = u.ctype, !.body = u.body,
                                       !.clock = ClockReads(u.method, u.ctype)]]
         IN  IF u.method = "OPTIONS"
             THEN /\ req' = [in EXCEPT ![r].ret = "cors", ![r].status = StatusOK]
                  /\ UNCHANGED <<c, worker, batch>>
             ELSE IF chk.ret # "none"
             THEN /\ req' = [in EXCEPT ![r].ret = chk.ret, ![r].status = chk.status]
                  /\ UNCHANGED <<c, worker, batch>>
             ELSE Enqueue(r, req[r].h, [in EXCEPT ![r].status = chk.status])
    /\ mu' = [mu EXCEPT !.readers = @ - 1]
    /\ UNCHANGED <<hc, op, closed, processors, closeReturned, bufferSize, lastSwap>>
    /\ UNCHANGED libVars

\* ------------------------------------------------------- Pipeline workers
\* (a receive that gives up on the buffered batches once the channel is closed)
HasItem_unlessClosed(p) == Len(c[p]) > 0 /\ ~closed[p]

\* Whether a receive on p.c finds a batch in the buffer; a closed channel
\* still hands out what it holds.
HasItem(p) == Len(c[p]) > 0

\* (a receive that leaves the batch it returns in the buffer)
AfterRecv_peek(q) == q

\* The buffer after a receive has taken its head.
AfterRecv(q) == Tail(q)

\* for reports := range p.c: take the head of the buffer; if the buffer is
\* empty, leave the loop when the channel is closed and block otherwise.
WorkerRecv(p, w) ==
    /\ worker[p][w].pc = "recv"
    /\ IF HasItem(p)
       THEN /\ worker' = [worker EXCEPT ![p][w] = Received(p, Head(c[p]))]
            /\ c' = [c EXCEPT ![p] = AfterRecv(@)]
            /\ batch' = [batch EXCEPT ![Head(c[p])].taken = @ + 1,
                                      ![Head(c[p])].done = (Len(processors[p]) = 0),
                                      ![Head(c[p])].ticket = 0]
       ELSE /\ worker' = [worker EXCEPT ![p][w].pc =
                                     IF closed[p] THEN "exit" ELSE "parked"]
            /\ UNCHANGED <<c, batch>>
    /\ UNCHANGED <<hc, mu, op, req, closed, processors, closeReturned,
                   bufferSize, lastSwap>>
    /\ UNCHANGED libVars

\* (a close that leaves the blocked receivers asleep)
WakesReceivers_never(p) == FALSE

\* Whether the receivers blocked on p.c are woken: close(p.c) wakes them all.
WakesReceivers(p) == closed[p]

\* close(p.c) wakes a blocked receiver, which leaves the loop: wg.Done().
WorkerWake(p, w) ==
    /\ worker[p][w].pc = "parked"
    /\ WakesReceivers(p)
    /\ worker' = [worker EXCEPT ![p][w].pc = "exit"]
    /\ UNCHANGED <<hc, mu, op, req, c, closed, processors, batch,
                   closeReturned, bufferSize, lastSwap>>
    /\ UNCHANGED libVars

\* The context the workers of pipeline p pass to the processors: the ctx
\* parameter of setupPipeline, which NewPipeline sets to context.Background().
\* The ctx parameter of Pipeline.ProcessReports is not used.
WorkerCtx(p) == Background

\* The processor a worker at position i of the chain of pipeline p invokes.
NextProcessor(p, i) == processors[p][i]

\* (an engine that abandons the chain when a processor fails)
ChainStep_abortOnFailure(i, wrote) == IF wrote THEN i + 1 ELSE MaxProcs + 1

\* The position in the chain after the processor at position i has returned
\* (wrote: whether that processor managed to write its output).
ChainStep(i, wrote) == i + 1

\* publisher.ProcessReports(ctx, reports) for the next processor of the
\* chain.  The processor sees the batch as the earlier ones left it and
\* either writes its output into the batch or fails to.
WorkerProcess(p, w) ==
    /\ worker[p][w].pc = "proc"
    /\ LET b == worker[p][w].b
           i == worker[p][w].i
           proc == NextProcessor(p, i)
       IN  \E wrote \in (IF proc \in Flaky THEN BOOLEAN ELSE {TRUE}) :
             LET n == ChainStep(i, wrote) IN
             /\ batch' = [batch EXCEPT ![b] = [@ EXCEPT
                    !.calls = Append(@, [pl |-> p, wk |-> w, proc |-> proc,
                                         seen |-> batch[b].data,
                                         ctx |-> WorkerCtx(p),
                                         time |-> batch[b].Time]),
                    !.data = IF wrote THEN Append(@, proc) ELSE @,
                    !.done = (n > Len(processors[p]))]]
             /\ worker' = [worker EXCEPT ![p][w] =
                    IF n > Len(processors[p])
                    THEN [pc |-> "recv", b |-> None, i |-> 0]
                    ELSE [pc |-> "proc", b |-> b, i |-> n]]
    /\ UNCHANGED <<hc, mu, op, req, c, closed, processors, closeReturned,
                   bufferSize, lastSwap>>
    /\ UNCHANGED libVars

\* --------------------------------------------- HotSwap.Swap, HotSwap.Close
\* NewPipeline(bufferSize, numWorkers) followed by the AddProcessor calls of
\* the caller: the channel, the started workers and the processor list of
\* pipeline p.  A pipeline is built once, right before it is first handed to
\* Swap.
Built(p) == worker[p][1].pc # "none"

\* A worker slot of a pipeline that was given fewer than NumWorkers workers:
\* no goroutine, nothing added to the wait group.
NotStarted == [pc |-> "exit", b |-> None, i |-> 0]

\* p := NewPipeline(bufferSize, numWorkers) and the AddProcessor calls that
\* follow it: a channel of that capacity, numWorkers workers about to
\* receive, the processor list.
NewPipeline(p, size, numWorkers) ==
    /\ worker' = [worker EXCEPT ![p] =
                     [w \in Workers |-> IF w <= numWorkers THEN NewWorker ELSE NotStarted]]
    /\ processors' = [processors EXCEPT ![p] = Rotation(p - 1)]
    /\ bufferSize' = [bufferSize EXCEPT ![p] = size]

\* h.mu.Lock(), first half, of a Swap(a) or Close() call: take rw.w and
\* announce the writer, so that readers arriving from now on queue up behind
\* it.  The caller of Swap has built the pipeline it passes.
OpLockAs(o, k, a) ==
    /\ op[o].pc = "new"
    /\ IF o = 1 THEN TRUE ELSE op[o - 1].pc # "new"
    /\ mu.writer = None
    /\ k = "Close" => a = None
    /\ op' = [op EXCEPT ![o] = [@ EXCEPT !.pc = "lock", !.kind = k, !.arg = a]]
    /\ IF a # None /\ ~Built(a)
       THEN NewPipeline(a, Capacity(a), NumWorkers)
       ELSE UNCHANGED <<worker, processors, bufferSize>>
    /\ mu' = [mu EXCEPT !.writer = o]
    /\ UNCHANGED <<hc, req, c, closed, batch, closeReturned, lastSwap>>
    /\ UNCHANGED libVars

OpLock(o) ==
    \E k \in {"Swap", "Close"}, a \in Pipelines \cup {None} : OpLockAs(o, k, a)

\* (a writer that does not wait for the active readers)
WriterMayEnter_ignoresReaders == TRUE

\* Whether the writer that announced itself may enter the critical section.
WriterMayEnter == mu.readers = 0

\* h.mu.Lock(), second half, and if h.hc != nil { h.hc.Close() } down to
\* close(p.c): the writer enters once the active readers have left.  Closing
\* a channel that is already closed panics.
OpAcquire(o) ==
    /\ op[o].pc = "lock"
    /\ WriterMayEnter
    /\ IF hc = None
       THEN /\ op' = [op EXCEPT ![o].pc = "wait"]
            /\ closed' = closed
       ELSE IF closed[hc]
       THEN /\ op' = [op EXCEPT ![o].pc = "wait", ![o].res = "panic"]
            /\ closed' = closed
       ELSE /\ op' = [op EXCEPT ![o].pc = "wait", ![o].old = hc]
            /\ closed' = [closed EXCEPT ![hc] = TRUE]
    /\ UNCHANGED <<hc, mu, req, c, worker, processors, batch,
                   closeReturned, bufferSize, lastSwap>>
    /\ UNCHANGED libVars

\* (a Close that does not wait for the workers)
WaitDone_noWait(p) == TRUE

\* Whether p.wg.Wait() returns for pipeline p.
WaitDone(p) == wgCount(p) = 0

\* (a Swap that closes the old handler but leaves it installed)
Installed_keepsOld(cur, new) == cur

\* The handler installed by Swap(new) over the current one.
Installed(cur, new) == new

\* p.wg.Wait() returns once every worker has exited; Swap then installs the
\* new handler (h.hc = hc); the deferred h.mu.Unlock() lets the readers that
\* queued up behind the writer enter and releases rw.w.  After a panic only
\* the deferred Unlock runs.
OpFinish(o) ==
    /\ op[o].pc = "wait"
    /\ op[o].old # None => WaitDone(op[o].old)
    /\ LET ok == op[o].res # "panic"
           waiting == {r \in Reqs : req[r].pc = "rwait"}
       IN
       /\ closeReturned' = IF op[o].old # None
                           THEN closeReturned \cup {op[o].old} ELSE closeReturned
       /\ hc' = IF ok /\ op[o].kind = "Swap" THEN Installed(hc, op[o].arg) ELSE hc
       /\ lastSwap' = IF ok /\ op[o].kind = "Swap" THEN op[o].arg ELSE lastSwap
       /\ op' = [op EXCEPT ![o].pc = "done",
                           ![o].res = IF ok THEN "ok" ELSE "panic"]
       /\ mu' = [readers |-> Cardinality(waiting), writer |-> None]
       /\ req' = [r \in Reqs |-> IF r \in waiting
                                  THEN [req[r] EXCEPT !.pc = "dispatch"]
                                  ELSE req[r]]
    /\ UNCHANGED <<c, closed, worker, processors, batch, bufferSize>>
    /\ UNCHANGED libVars

\* ------------------------------------------------------------------ Next
Next ==
    \/ \E r \in Reqs : ReqRLock(r)
    \/ \E r \in Reqs : ReqDispatch(r)
    \/ \E r \in Reqs : ReqServe(r)
    \/ \E p \in Pipelines, w \in Workers : WorkerRecv(p, w)
    \/ \E p \in Pipelines, w \in Workers : WorkerWake(p, w)
    \/ \E p \in Pipelines, w \in Workers : WorkerProcess(p, w)
    \/ \E o \in Ops : OpLock(o)
    \/ \E o \in Ops : OpAcquire(o)
    \/ \E o \in Ops : OpFinish(o)

Spec == Init /\ [][Next]_vars

\* --------------------------------------- building a pipeline: the loader
\* A processor added by hand, as opposed to one built from a configuration.
ManualProcessor == [type |-> "Manual", config |-> [obj |-> FALSE, type |-> ""],
                    ctx |-> NoCtx]

\* p.AddProcessor(processor), called by the code that sets the pipeline up
AddProcessor(p) ==
    /\ nLoads < MaxLoads
    /\ processors' = [processors EXCEPT ![p] = AddProcessorTo(@, ManualProcessor)]
    /\ nLoads' = nLoads + 1
    /\ UNCHANGED <<servingVars, load, corsVars, annVars, coreVars, codecVars, ingressVars>>

\* p.LoadFromConfig(ctx, configBytes)
LoadFromConfig(p, ctx, doc) ==
    /\ nLoads < MaxLoads
    /\ LET res == LoadFromConfigResult(processors[p], ctx, doc) IN
       /\ processors' = [processors EXCEPT ![p] = res.processors]
       /\ load' = [p |-> p, ctx |-> ctx, doc |-> doc, before |-> processors[p],
                   after |-> res.processors, err |-> res.err]
    /\ nLoads' = nLoads + 1
    /\ UNCHANGED <<servingVars, corsVars, annVars, coreVars, codecVars, ingressVars>>

NextConfig ==
    \/ \E p \in Pipelines : AddProcessor(p)
    \/ \E p \in Pipelines, ctx \in {Background, RequestCtx(1)}, doc \in Docs :
          LoadFromConfig(p, ctx, doc)

SpecConfig == Init /\ [][NextConfig]_vars

\* ------------------------------------- Pipeline.ProcessReports, directly
\* p.ProcessReports(ctx, w, r) called by a handler of its own (not through
\* Pipeline.ServeHTTP, which answers OPTIONS itself), for a request with any
\* method, Content-Type and body: what it answers, returns and does.
CallProcessReports(method, ctype, body) ==
    /\ Len(ingress) < MaxCalls
    /\ LET chk == ProcessReportsChecks(method, ctype, body) IN
       ingress' = Append(ingress, [method |-> method, ctype |-> ctype, body |-> body,
                                   status |-> chk.status, ret |-> chk.ret,
                                   steps |-> ProcessReportsSteps(method, ctype, body)])
    /\ UNCHANGED <<servingVars, processors, configVars, corsVars, annVars, coreVars,
                   codecVars>>

NextIngress ==
    \E method \in Methods, ctype \in ContentTypes, body \in Bodies :
        CallProcessReports(method, ctype, body)

SpecIngress == Init /\ [][NextIngress]_vars

\* ------------------------------------------ one pipeline behind a HotSwap
\* hs.Swap(NewPipeline(size, numWorkers)) on a HotSwap that has just been
\* declared, before any request or any other call: nothing to close, the
\* pipeline is installed.
SwapFirst(size, numWorkers) ==
    /\ hc = None
    /\ ~Built(1)
    /\ mu = [readers |-> 0, writer |-> None]
    /\ \A r \in Reqs : req[r].pc = "new"
    /\ \A o \in Ops : op[o].pc = "new"
    /\ NewPipeline(1, size, numWorkers)
    /\ hc' = 1
    /\ lastSwap' = 1
    /\ UNCHANGED <<mu, op, req, c, closed, batch, closeReturned>>
    /\ UNCHANGED libVars

\* The server after that: requests, the workers, and HotSwap.Close calls.
\* The pipeline it is started with has any buffer size up to QueueCap (0: an
\* unbuffered channel) and any number of workers from 1.
NextOne ==
    \/ \E size \in 0..QueueCap, numWorkers \in 1..NumWorkers : SwapFirst(size, numWorkers)
    \/ \E r \in Reqs : ReqRLock(r)
    \/ \E r \in Reqs : ReqDispatch(r)
    \/ \E r \in Reqs : ReqServe(r)
    \/ \E p \in Pipelines, w \in Workers : WorkerRecv(p, w)
    \/ \E p \in Pipelines, w \in Workers : WorkerWake(p, w)
    \/ \E p \in Pipelines, w \in Workers : WorkerProcess(p, w)
    \/ \E o \in Ops : OpLockAs(o, "Close", None)
    \/ \E o \in Ops : OpAcquire(o)
    \/ \E o \in Ops : OpFinish(o)

SpecOne == Init /\ [][NextOne]_vars

\* The Go scheduler runs every goroutine that can take a step: the workers
\* (a processor call that has started returns) and the caller of Close.
\* Nothing makes a client send a request.
SpecOneFair ==
    /\ SpecOne
    /\ \A p \in Pipelines, w \in Workers :
          /\ WF_vars(WorkerRecv(p, w))
          /\ WF_vars(WorkerWake(p, w))
          /\ WF_vars(WorkerProcess(p, w))
    /\ \A o \in Ops : WF_vars(OpFinish(o))


\* --------------------------------- AddProcessor on a pipeline that serves
\* p.AddProcessor(processor) by the owner of a pipeline that is installed
\* and has its workers running: nothing in Pipeline keeps the call from
\* being made then.  The call is taken while no worker of p is inside its
\* loop over p.processors (a call during the loop races with it).
LateAddProcessor(p, processor) ==
    /\ Built(p)
    /\ Len(processors[p]) = MaxProcs
    /\ \A w \in Workers : worker[p][w].pc # "proc"
    /\ processors' = [processors EXCEPT ![p] = AddProcessorTo(@, processor)]
    /\ UNCHANGED <<servingVars, libVars>>

NextLate ==
    \/ Next
    \/ \E p \in Pipelines, processor \in ProcIds : LateAddProcessor(p, processor)

SpecLate == Init /\ [][NextLate]_vars

\* ------------------------------------------- CORS (cors.go) and serveCORS
\* A response as an httptest.ResponseRecorder shows it: the header map (a
\* set of <<name, value>> pairs), the status (200 unless WriteHeader is
\* called), what was written to the body, and how often the handler
\* wrapped by the CORS shim was called for it.
NewRecorder(pre) == [header |-> pre, status |-> StatusOK, body |-> <<>>, calls |-> 0]

\* w.Header().Set(k, v)
HeaderSet(w, k, v) ==
    [w EXCEPT !.header = {x \in @ : x[1] # k} \cup {<<k, v>>}]

\* Headers the response may hold before the shim runs.
PreHeaders == {{}, {<<"Access-Control-Allow-Origin", "https://example.com">>}}

\* fakeHTTPHandler.ServeHTTP: io.WriteString(w, "fake response")
fakeHTTPHandler(w) == [w EXCEPT !.body = Append(@, "fake response"), !.calls = @ + 1]

\* serveCORS(w, r) of pipeline.go
serveCORS(w) ==
    HeaderSet(HeaderSet(HeaderSet(w,
        "Access-Control-Allow-Methods", "POST"),
        "Access-Control-Allow-Headers", "Content-Type"),
        "Access-Control-Allow-Origin", "*")

\* (a shim that hands every request to the wrapped handler)
IsPreflight_never(method) == FALSE

\* if r.Method == "OPTIONS"
IsPreflight(method) == method = "OPTIONS"

\* CORS.ServeHTTP(w, r) of cors.go, wrapping fakeHTTPHandler
CORSServeHTTP(w, method) ==
    IF IsPreflight(method)
    THEN HeaderSet(HeaderSet(HeaderSet(w,
            "Access-Control-Allow-Method", "POST"),
            "Access-Control-Allow-Headers", "Content-Type"),
            "Access-Control-Allow-Origin", "*")
    ELSE fakeHTTPHandler(w)

\* A request with the given method is served by CORS{fakeHTTPHandler{}}.
ServeThroughCORS(method, pre) ==
    /\ Len(exch) < MaxExchanges
    /\ exch' = Append(exch, [via |-> "CORS", method |-> method, pre |-> pre,
                             w |-> CORSServeHTTP(NewRecorder(pre), method)])
    /\ UNCHANGED <<servingVars, processors, configVars, annVars, coreVars, codecVars, ingressVars>>

\* An OPTIONS request is served by Pipeline.ServeHTTP, that is by serveCORS.
ServeOptionsByPipeline(pre) ==
    /\ Len(exch) < MaxExchanges
    /\ exch' = Append(exch, [via |-> "Pipeline", method |-> "OPTIONS", pre |-> pre,
                             w |-> serveCORS(NewRecorder(pre))])
    /\ UNCHANGED <<servingVars, processors, configVars, annVars, coreVars, codecVars, ingressVars>>

NextCORS ==
    \/ \E method \in Methods, pre \in PreHeaders : ServeThroughCORS(method, pre)
    \/ \E pre \in PreHeaders : ServeOptionsByPipeline(pre)

SpecCORS == Init /\ [][NextCORS]_vars

\* ---------------------------------------------------- annotation operations
\* a.SetAnnotation(name, value) on slot x = <<store, name>>
SetAnnotation(x, src) ==
    /\ IsSource(ann, src)
    /\ ann' = SetAnnotationIn(ann, x, ArgValue(ann, src))
    /\ alias' = Stored(alias, x, src)
    /\ annOp' = [NoAnnOp EXCEPT !.kind = "Set", !.slot = x]
    /\ UNCHANGED <<servingVars, processors, configVars, corsVars, coreVars, codecVars, ingressVars>>

\* a.GetOrAddAnnotation(name, defaultValue) on slot x
GetOrAddAnnotation(x, src) ==
    /\ LET d == ArgValue(ann, src)
           res == GetOrAddResult(ann, x, d)
       IN  /\ ann' = IF res.added THEN SetAnnotationIn(ann, x, d) ELSE ann
           /\ alias' = IF res.added THEN Stored(alias, x, src) ELSE alias
           /\ annOp' = [NoAnnOp EXCEPT !.kind = "GetOrAdd", !.slot = x,
                                       !.present = (ann[x].kind # "absent"),
                                       !.arg = Content(d),
                                       !.ret = Content(res.ret)]
    /\ UNCHANGED <<servingVars, processors, configVars, corsVars, coreVars, codecVars, ingressVars>>

\* a.AnnotationWriter(name).Write(p) on slot x.  A Write that follows a
\* successful Write through the same writer continues the run of Writes.
Write(x, p) ==
    /\ Len(ann[x].bytes) + Len(p) <= MaxBytes
    /\ LET res == WriteResult(ann, alias, x, p)
           continues == annOp.kind = "Write" /\ ~annOp.err /\ annOp.slot = x
       IN  /\ ann' = res.ann
           /\ alias' = res.alias
           /\ annOp' = [NoAnnOp EXCEPT
                  !.kind = "Write", !.slot = x,
                  !.arg = [kind |-> "bytes", bytes |-> p],
                  !.n = res.n, !.err = res.err,
                  !.base = IF continues THEN annOp.base ELSE Content(ann[x]),
                  !.written = IF res.err THEN <<>>
                              ELSE IF continues THEN annOp.written \o p ELSE p,
                  !.writes = IF res.err THEN 0
                             ELSE IF continues THEN annOp.writes + 1 ELSE 1]
    /\ UNCHANGED <<servingVars, processors, configVars, corsVars, coreVars, codecVars, ingressVars>>

NextAnnotations ==
    \/ \E x \in Slots, src \in ValueSources : SetAnnotation(x, src)
    \/ \E x \in Slots, src \in Defaults : GetOrAddAnnotation(x, src)
    \/ \E x \in Slots, p \in Payloads : Write(x, p)

SpecAnnotations == Init /\ [][NextAnnotations]_vars

\* -------------------------------------------------- running the processors
\* A batch with the given reports comes out of ingress (its sinks are
\* looked at from here on).
ReceiveBatch(reports) ==
    /\ ~pb.made
    /\ pb' = [NoBatch EXCEPT !.made = TRUE, !.Reports = reports]
    /\ UNCHANGED <<servingVars, processors, configVars, corsVars, annVars, dumper, codecVars, ingressVars>>

\* KeepNelReports{}.ProcessReports(ctx, batch)
KeepNelReportsProcessReports ==
    /\ pb.made
    /\ pb.runs < MaxRuns
    /\ pb' = [pb EXCEPT !.Reports = KeepNelReports(pb.Reports),
                        !.runs = @ + 1, !.last = "KeepNelReports",
                        !.before = pb.Reports,
                        !.stdoutBefore = pb.stdout,
                        !.TestResultBefore = pb.TestResult]
    /\ UNCHANGED <<servingVars, processors, configVars, corsVars, annVars, dumper, codecVars, ingressVars>>

\* the loader registered as DumpReportsAsCLF is given an entry
LoadDumpReportsAsCLF(dest) ==
    /\ dumper' = [dest |-> dest, err |-> LoadDumper(dest).err,
                  Writer |-> LoadDumper(dest).Writer]
    /\ UNCHANGED <<servingVars, processors, configVars, corsVars, annVars, pb, codecVars, ingressVars>>

\* d.ProcessReports(ctx, batch) for the DumpReportsAsCLF d that was loaded
DumpReportsAsCLFProcessReports ==
    /\ pb.made
    /\ pb.runs < MaxRuns
    /\ dumper.Writer # "none"
    /\ LET lines == PrintBatchAsCLF(pb.Reports)
           sink == SinkOf(dumper.Writer)
       IN  pb' = [pb EXCEPT
                    !.stdout = IF sink = "os.Stdout" THEN @ \o lines ELSE @,
                    !.TestResult = IF sink = "TestResult" THEN @ \o lines ELSE @,
                    !.runs = @ + 1, !.last = "DumpReportsAsCLF",
                    !.by = dumper.dest,
                    !.before = pb.Reports,
                    !.stdoutBefore = pb.stdout,
                    !.TestResultBefore = pb.TestResult]
    /\ UNCHANGED <<servingVars, processors, configVars, corsVars, annVars, dumper, codecVars, ingressVars>>

NextCore ==
    \/ \E reports \in SeqsUpTo(SampleReports, MaxReports) : ReceiveBatch(reports)
    \/ KeepNelReportsProcessReports
    \/ \E dest \in Dests : LoadDumpReportsAsCLF(dest)
    \/ DumpReportsAsCLFProcessReports

SpecCore == Init /\ [][NextCore]_vars

\* ----------------------------------------------------- using the codecs
\* Each behaviour makes one use of a codec.
\* json.Unmarshal of a report object of an upload
Unmarshal(obj) ==
    /\ codec.op = "none"
    /\ codec' = [NoCodec EXCEPT !.op = "Unmarshal", !.obj = obj,
                                !.report = UnmarshalJSON(obj)]
    /\ UNCHANGED <<servingVars, processors, configVars, corsVars, annVars, coreVars, ingressVars>>

\* json.Marshal of a report, and json.Unmarshal of what it wrote
MarshalAndBack(r) ==
    /\ codec.op = "none"
    /\ codec' = [NoCodec EXCEPT !.op = "Marshal", !.report = r,
                                !.emitted = MarshalJSON(r),
                                !.back = UnmarshalJSON(MarshalJSON(r))]
    /\ UNCHANGED <<servingVars, processors, configVars, corsVars, annVars, coreVars, ingressVars>>

\* encodeRawReports of a slice of reports, and decodeRawReports of what it
\* wrote
RawAndBack(reports) ==
    /\ codec.op = "none"
    /\ codec' = [NoCodec EXCEPT !.op = "Raw", !.report = reports,
                                !.emitted = encodeRawReports(reports),
                                !.back = decodeRawReports(encodeRawReports(reports))]
    /\ UNCHANGED <<servingVars, processors, configVars, corsVars, annVars, coreVars, ingressVars>>

NextCodec ==
    \/ \E obj \in ReportObjects : Unmarshal(obj)
    \/ \E r \in CodecReports : MarshalAndBack(r)
    \/ \E reports \in SeqsUpTo(RawSample, MaxRaw) : RawAndBack(reports)

SpecCodec == Init /\ [][NextCodec]_vars

TypeOK ==
    /\ hc \in Pipelines \cup {None}
    /\ mu.readers \in 0..MaxReqs
    /\ \A p \in Pipelines : Len(c[p]) <= bufferSize[p]

\* ------------------------------------------------------------ properties
Min(a, b) == IF a < b THEN a ELSE b

\* how often batch b occurs in sequence q
Occurs(q, b) == Cardinality({k \in 1..Len(q) : q[k] = b})

\* the uploads that passed the ingress checks of pipeline p and whose
\* enqueue attempt has been decided
Attempts(p) == {r \in Reqs : req[r].pc = "done" /\ req[r].h = p
                             /\ req[r].ret \in {"nil", "ErrDropped"}}
Accepted(p) == {r \in Reqs : batch[r].acc = p}
Dequeued(p) == {r \in Accepted(p) : batch[r].taken > 0}
Holders(b) == {pw \in Pipelines \X Workers : worker[pw[1]][pw[2]].b = b}

\* C1: as long as no worker of a pipeline of capacity K has dequeued, of the
\* n valid uploads whose enqueue attempt is over exactly min(K, n) returned
\* nil, and are the content of the queue, and the other n - min(K, n)
\* returned ErrDropped; the queue never holds more than K batches.
C1_Backpressure ==
    \A p \in Pipelines :
        /\ Len(c[p]) <= bufferSize[p]
        /\ Dequeued(p) = {} =>
             LET n == Cardinality(Attempts(p))
                 k == Min(bufferSize[p], n)
                 nil == {r \in Attempts(p) : req[r].ret = "nil"}
             IN  /\ Cardinality(nil) = k
                 /\ Cardinality(Attempts(p) \ nil) = n - k
                 /\ Len(c[p]) = k
                 /\ \A r \in nil : Occurs(c[p], r) = 1

\* a full queue nobody has dequeued from, one upload in it and one dropped
C1_Witness ==
    \E p \in Pipelines, r1, r2 \in Reqs :
        /\ Dequeued(p) = {}
        /\ Cardinality(Attempts(p)) = bufferSize[p] + 1
        /\ req[r1].ret = "nil" /\ req[r1].h = p
        /\ req[r2].ret = "ErrDropped" /\ req[r2].h = p

\* C2: every accepted batch is at any time in exactly one place: once in the
\* queue of the pipeline that accepted it, or in the hands of exactly one of
\* its workers, or completed; it has been dequeued at most once, all its
\* processor calls were made by one worker of that pipeline, and a batch
\* that was not accepted is nowhere.
C2_NoSharing ==
    \A r \in Reqs :
        LET p == batch[r].acc
            inQueues == {q \in Pipelines : Occurs(c[q], r) > 0}
        IN  IF p = None
            THEN inQueues = {} /\ Holders(r) = {} /\ batch[r].taken = 0
                 /\ batch[r].calls = <<>> /\ ~batch[r].done
            ELSE /\ Occurs(c[p], r) + Cardinality(Holders(r))
                      + (IF batch[r].done THEN 1 ELSE 0) = 1
                 /\ inQueues \subseteq {p}
                 /\ \A pw \in Holders(r) : pw[1] = p
                 /\ batch[r].taken <= 1
                 /\ batch[r].taken = 0 <=> Occurs(c[p], r) = 1
                 /\ \A i, j \in 1..Len(batch[r].calls) :
                      /\ batch[r].calls[i].pl = p
                      /\ batch[r].calls[i].wk = batch[r].calls[j].wk
                 /\ \A pw \in Holders(r) : \A i \in 1..Len(batch[r].calls) :
                      batch[r].calls[i].wk = pw[2]

\* two workers of one pipeline, each in the middle of its own batch
C2_Witness ==
    \E p \in Pipelines, w1, w2 \in Workers :
        /\ w1 # w2
        /\ worker[p][w1].pc = "proc" /\ worker[p][w2].pc = "proc"
        /\ worker[p][w1].b # worker[p][w2].b
        /\ batch[worker[p][w1].b].calls # <<>>

\* the requests that hold the read lock: between RLock and the deferred RUnlock
InDispatch == {r \in Reqs : req[r].pc \in {"dispatch", "serving"}}

\* the Swap/Close calls that are inside the Close of the outgoing handler
Closing == {o \in Ops : op[o].pc = "wait" /\ op[o].old # None}

\* C3: while a Swap (or Close) is inside the Close of the outgoing handler,
\* no request holds the read lock, and every request that was dispatched to
\* that handler has finished.
C3_CloseOnlyWhenQuiescent ==
    \A o \in Closing :
        /\ InDispatch = {}
        /\ mu.readers = 0
        /\ \A r \in Reqs : req[r].h = op[o].old => req[r].pc = "done"

\* a Swap closes a handler that has served a request, with another request
\* queued up behind the writer
C3_Witness ==
    \E o \in Closing, r1, r2 \in Reqs :
        /\ op[o].kind = "Swap"
        /\ req[r1].h = op[o].old /\ req[r1].ret = "nil"
        /\ req[r2].pc = "rwait"

\* the requests that HotSwap.ServeHTTP has handed to a handler
\* (all but those that found no handler installed and panicked)
Served == {r \in Reqs : /\ req[r].pc \in {"serving", "done"}
                        /\ ~(req[r].ret = "panic" /\ req[r].h = None)}
DispatchedTo(p) == {r \in Reqs : req[r].pc \in {"serving", "done"} /\ req[r].h = p}

\* C4: a request that HotSwap.ServeHTTP dispatches is dispatched to one
\* handler, which is a whole pipeline and remains the installed handler
\* until the dispatch is over, no Swap or Close being inside its critical
\* section meanwhile; the dispatches to the single handlers add up to the
\* requests served.
C4_AtomicDispatch ==
    /\ \A r \in Reqs : req[r].pc = "serving" =>
          /\ req[r].h \in Pipelines
          /\ hc = req[r].h
          /\ \A o \in Ops : op[o].pc # "wait"
    /\ \A p, q \in Pipelines : p # q => DispatchedTo(p) \cap DispatchedTo(q) = {}
    /\ Served = UNION {DispatchedTo(p) : p \in Pipelines}

\* a request is inside the old handler while a Swap to another handler has
\* announced itself and waits, and an earlier request was served by the same
\* old handler
C4_Witness ==
    \E r1, r2 \in Reqs, o \in Ops :
        /\ r1 # r2
        /\ req[r1].pc = "serving" /\ req[r2].pc = "done" /\ req[r2].h = req[r1].h
        /\ op[o].pc = "lock" /\ op[o].kind = "Swap"
        /\ op[o].arg \in Pipelines /\ op[o].arg # hc

\* C5: a request that starts when no Swap is running, and reads the handler
\* before any further Swap has begun, is dispatched to the argument of the
\* Swap that returned last (to no handler at all after Swap(nil)).
C5_NewHandlerAfterSwap ==
    \A r \in Reqs :
        (req[r].pc \in {"serving", "done"} /\ req[r].exp # -1) => req[r].h = req[r].exp

\* a request that started after a Swap replaced one pipeline by another and
\* was served by the new one
C5_Witness ==
    \E r \in Reqs, o \in Ops :
        /\ req[r].pc = "done" /\ req[r].exp \in Pipelines /\ req[r].h = req[r].exp
        /\ req[r].ret = "nil"
        /\ op[o].pc = "done" /\ op[o].kind = "Swap" /\ op[o].old \in Pipelines
        /\ op[o].arg = req[r].exp /\ op[o].old # op[o].arg

\* the processors that were called on batch b, in call order
Called(b) == [k \in 1..Len(batch[b].calls) |-> batch[b].calls[k].proc]

\* batch b has been through the whole chain of pipeline p, in p's workers
FullyProcessedBy(b, p) ==
    /\ batch[b].done
    /\ Called(b) = processors[p]
    /\ \A k \in 1..Len(batch[b].calls) : batch[b].calls[k].pl = p
    /\ \A q \in Pipelines : Occurs(c[q], b) = 0
    /\ Holders(b) = {}

\* C6: once a Swap that replaced pipeline p has returned, every batch p
\* accepted has been through all processors of p, run by p's workers, and is
\* in no queue and in no worker's hands.
C6_SwapDrainsOutgoing ==
    \A o \in Ops :
        (op[o].kind = "Swap" /\ op[o].pc = "done" /\ op[o].res = "ok"
            /\ op[o].old # None) =>
        \A b \in Accepted(op[o].old) : FullyProcessedBy(b, op[o].old)

\* a Swap has replaced a pipeline that had accepted two batches by another
C6_Witness ==
    \E o \in Ops :
        /\ op[o].kind = "Swap" /\ op[o].pc = "done" /\ op[o].res = "ok"
        /\ op[o].old # None /\ op[o].arg \in Pipelines /\ op[o].arg # op[o].old
        /\ hc = op[o].arg
        /\ Cardinality(Accepted(op[o].old)) = 2

\* C7: once Pipeline.Close has returned, the queue is empty, every worker
\* has exited and every batch the pipeline accepted has been through all of
\* its processors.
C7_CloseDrains ==
    \A p \in closeReturned :
        /\ c[p] = <<>>
        /\ closed[p]
        /\ \A w \in Workers : worker[p][w].pc = "exit"
        /\ \A b \in Accepted(p) : batch[b].done /\ Called(b) = processors[p]

\* HotSwap.Close has closed a pipeline that had a batch in its queue when
\* the channel was closed (the batch was dequeued by a worker, not handed over)
C7_Witness ==
    \E o \in Ops, b \in Reqs :
        /\ op[o].kind = "Close" /\ op[o].pc = "done" /\ op[o].old \in closeReturned
        /\ batch[b].acc = op[o].old /\ batch[b].done
        /\ req[b].pc = "done"

\* the finished requests whose upload passed (did not pass) every ingress check
ValidUpload(r) ==
    /\ req[r].method = "POST"
    /\ req[r].ctype = "application/reports+json"
    /\ req[r].body = "valid"
Finished(r) == req[r].pc = "done" /\ req[r].h # None
Untouched(b) ==
    /\ batch[b] = NewBatch
    /\ \A q \in Pipelines : Occurs(c[q], b) = 0
    /\ Holders(b) = {}

\* C8: an upload that passes the method, content-type and decode checks is
\* answered 204 whatever happens to the batch; ProcessReports returns nil
\* exactly when the batch went to the queue (or straight to a waiting
\* worker) and ErrDropped exactly when the send found the open queue full.
C8_DropKeeps204 ==
    \A r \in Reqs : (Finished(r) /\ ValidUpload(r)) =>
        /\ req[r].status = StatusNoContent
        /\ req[r].ret \in {"nil", "ErrDropped", "panic"}
        /\ (req[r].ret = "nil") = (batch[r].acc = req[r].h)
        /\ (req[r].ret = "ErrDropped") = req[r].full
        /\ req[r].ret # "nil" => Untouched(r)

\* one valid upload was dropped and answered 204, another was enqueued
C8_Witness ==
    \E r1, r2 \in Reqs :
        /\ Finished(r1) /\ ValidUpload(r1) /\ req[r1].ret = "ErrDropped"
        /\ req[r1].status = StatusNoContent /\ req[r1].full
        /\ Finished(r2) /\ ValidUpload(r2) /\ req[r2].ret = "nil"

\* C9: a request that is not a POST is answered 405, a POST with another
\* content type 400, a POST whose body does not decode 400; in each case
\* ProcessReports returns an error that is neither nil nor ErrDropped, the
\* batch is in no queue and no processor is invoked for it.
C9_RejectedNeverEnqueued ==
    \A r \in Reqs : (Finished(r) /\ req[r].method # "OPTIONS" /\ ~ValidUpload(r)) =>
        /\ req[r].status = (IF req[r].method # "POST" THEN StatusMethodNotAllowed
                            ELSE StatusBadRequest)
        /\ req[r].ret \in {"errMethod", "errContentType", "errDecode"}
        /\ Untouched(r)

\* the three kinds of rejection next to a batch that waits in the queue
C9_Witness ==
    \E r1, r2 \in Reqs :
        /\ Finished(r1) /\ req[r1].method = "POST" /\ req[r1].body = "garbled"
        /\ req[r1].status = StatusBadRequest
        /\ Occurs(c[req[r1].h], r2) = 1

\* C10: the processors called on a batch so far are the first ones of the
\* chain of the pipeline that accepted it, each once and in registration
\* order; each call saw what the earlier calls had written; and a batch is
\* completed only when the whole chain has been called, whether or not some
\* processor failed to write its output.
C10_ChainInOrder ==
    \A b \in Reqs : batch[b].acc # None =>
        LET p == batch[b].acc
            n == Len(batch[b].calls)
            wrote(k) == IF k = n THEN batch[b].data ELSE batch[b].calls[k + 1].seen
        IN  /\ n <= Len(processors[p])
            /\ Called(b) = SubSeq(processors[p], 1, n)
            /\ batch[b].done = (batch[b].taken = 1 /\ n = Len(processors[p]))
            /\ \A pw \in Holders(b) : worker[pw[1]][pw[2]].i = n + 1
            /\ n > 0 => batch[b].calls[1].seen = <<>>
            /\ \A k \in 1..n :
                 wrote(k) \in {batch[b].calls[k].seen,
                               Append(batch[b].calls[k].seen, batch[b].calls[k].proc)}

\* a batch is completed: its first processor failed to write, the second one
\* ran all the same and saw nothing of the first
C10_Witness ==
    \E b \in Reqs :
        /\ batch[b].done /\ Len(batch[b].calls) = Len(processors[batch[b].acc])
        /\ Len(batch[b].calls) >= 2
        /\ batch[b].calls[2].seen = <<>>
        /\ batch[b].data = SubSeq(processors[batch[b].acc], 2, Len(batch[b].calls))

\* C11: batches leave the queue of a pipeline in the order they entered it:
\* whenever a worker dequeues a batch, every batch still waiting in that
\* queue was enqueued after it (so a batch enqueued earlier has always been
\* dequeued earlier); a batch handed straight to a waiting worker overtakes
\* nothing, the queue being empty.
C11_FIFO ==
    [][\A b \in Reqs : (batch[b].taken = 0 /\ batch'[b].taken = 1) =>
          LET p == batch'[b].acc IN
          IF Occurs(c[p], b) = 0 THEN c[p] = <<>>
          ELSE \A a \in Waiting(p) \ {b} : batch[a].ticket > batch[b].ticket]_vars

\* batch b was sent while batch a was waiting in the buffer (hence its
\* ticket); a has been dequeued since and b is still waiting
C11_Witness ==
    \E a, b \in Reqs :
        /\ a # b
        /\ batch[a].acc = batch[b].acc /\ batch[a].acc # None
        /\ batch[a].taken = 1
        /\ Occurs(c[batch[b].acc], b) = 1 /\ batch[b].ticket = 2

\* C12: every processor call made for a batch is made with the context of
\* the HTTP request that uploaded the batch.
C12_RequestContext ==
    \A b \in Reqs : \A k \in 1..Len(batch[b].calls) :
        batch[b].calls[k].ctx = RequestCtx(b)

\* C13: when LoadFromConfig returns an error, the processor list of the
\* pipeline is what it was before the call.
C13_NoPartialRegistration ==
    (load.p # None /\ load.err # NoError) => load.after = load.before

\* the failure conditions in the order the specification lists them, by the
\* message each one is reported with
Precedence ==
    <<"Invalid NEL configuration",
      "NEL configuration missing processors",
      "NEL configuration processors array must be non-empty",
      "Processor config 0 must be an object",
      "Processor config %d is missing type",
      "Unknown processor type %s for processor %d",
      "Could not create a %s for processor %d: %v">>

\* the place in that list of the first condition entry e falls under (0: none)
EntryRank(e) ==
    IF PrimitiveDecodeFails(e) THEN 4
    ELSE IF e.type = "" THEN 5
    ELSE IF e.type \notin DOMAIN reportLoaders THEN 6
    ELSE IF reportLoaders[e.type].fails THEN 7
    ELSE 0

\* the places in that list of all the conditions document doc exhibits
Exhibits(doc) ==
    (IF doc.syntax = "bad" \/ doc.field = "scalar"
        \/ (doc.field = "array" /\ ~Homogeneous(doc.entries)) THEN {1} ELSE {})
    \cup (IF doc.syntax = "ok" /\ doc.field = "absent" THEN {2} ELSE {})
    \cup (IF doc.field = "array" /\ doc.entries = <<>> THEN {3} ELSE {})
    \cup ({EntryRank(doc.entries[k]) : k \in 1..Len(doc.entries)} \ {0})

SetMin(S) == CHOOSE x \in S : \A y \in S : x <= y

\* C14 as stated: for a document that exhibits more than one failure
\* condition, the error returned is that of the exhibited condition that
\* comes first in the precedence list.
C14_GlobalPrecedence ==
    (load.p # None /\ Cardinality(Exhibits(load.doc)) > 1) =>
        load.err.msg = Precedence[SetMin(Exhibits(load.doc))]

\* C14 (amended): the conditions are checked in this order: the document
\* does not parse, it has no processor field, the array is empty, and then
\* entry by entry in declared order, each entry against: does not decode
\* (not an object, or a type that is not a string), missing type, unknown
\* type, factory error.  The error returned is that of the first condition
\* met; the last three name the entry it was met at.
C14_FirstFailureInOrder ==
    load.p # None =>
        LET doc == load.doc
            es == doc.entries
            failing == {k \in 1..Len(es) : EntryRank(es[k]) # 0}
        IN  IF 1 \in Exhibits(doc) THEN load.err.msg = Precedence[1]
            ELSE IF 2 \in Exhibits(doc) THEN load.err.msg = Precedence[2]
            ELSE IF 3 \in Exhibits(doc) THEN load.err.msg = Precedence[3]
            ELSE IF failing = {} THEN load.err = NoError
            ELSE LET k == SetMin(failing) IN
                 /\ load.err.msg = Precedence[EntryRank(es[k])]
                 /\ EntryRank(es[k]) > 4 => load.err.idx = k - 1
                 /\ EntryRank(es[k]) > 5 => load.err.type = es[k].type

\* a document whose first entry has an unknown type and whose second entry
\* has no type: the error is the one of the first entry
C14_Witness ==
    /\ load.p # None
    /\ Len(load.doc.entries) = 2
    /\ EntryRank(load.doc.entries[1]) = 6
    /\ EntryRank(load.doc.entries[2]) = 5
    /\ load.err = Errorf(Precedence[6], "UnknownType", 0)

\* C15: a LoadFromConfig call that returns nil has appended, after the
\* processors the pipeline had, one processor per entry, in the order of the
\* entries; each was built from its entry by the factory registered under
\* the entry's type, a context-aware factory having received the context of
\* the call and a plain one none.
C15_AppendsInOrder ==
    (load.p # None /\ load.err = NoError) =>
        LET es == load.doc.entries
            n == Len(load.before)
        IN  /\ Len(es) > 0
            /\ Len(load.after) = n + Len(es)
            /\ SubSeq(load.after, 1, n) = load.before
            /\ \A k \in 1..Len(es) :
                 /\ es[k].type \in DOMAIN reportLoaders
                 /\ load.after[n + k].type = es[k].type
                 /\ load.after[n + k].config = es[k]
                 /\ load.after[n + k].ctx =
                      (IF reportLoaders[es[k].type].shape = "context"
                       THEN load.ctx ELSE NoCtx)

\* a pipeline that had a processor loads two entries of different types,
\* one of them context-aware, with a request's context
C15_Witness ==
    /\ load.p # None /\ load.err = NoError
    /\ load.before # <<>>
    /\ load.ctx = RequestCtx(1)
    /\ Len(load.doc.entries) = 2
    /\ load.doc.entries[1].type = "KeepNelReports"
    /\ load.doc.entries[2].type = "WithContext"
    /\ processors[load.p] = load.after

\* the CORS headers of a response
CORSHeaders(w) == {x \in w.header :
    x[1] \in {"Access-Control-Allow-Methods", "Access-Control-Allow-Method",
              "Access-Control-Allow-Headers", "Access-Control-Allow-Origin"}}

\* C16: every OPTIONS request is answered with the headers
\* Access-Control-Allow-Methods: POST, Access-Control-Allow-Headers:
\* Content-Type and Access-Control-Allow-Origin: *, with an empty body and
\* status 200.
C16_PreflightHeaders ==
    \A k \in 1..Len(exch) : exch[k].method = "OPTIONS" =>
        /\ {<<"Access-Control-Allow-Methods", "POST">>,
             <<"Access-Control-Allow-Headers", "Content-Type">>,
             <<"Access-Control-Allow-Origin", "*">>} \subseteq exch[k].w.header
        /\ exch[k].w.body = <<>>
        /\ exch[k].w.status = StatusOK

\* C17: the CORS shim does not call the wrapped handler for an OPTIONS
\* request; it calls it exactly once for any other request, and the
\* response is then what the wrapped handler wrote, with no header added by
\* the shim.
C17_ForwardsAllButOptions ==
    \A k \in 1..Len(exch) : exch[k].via = "CORS" =>
        IF exch[k].method = "OPTIONS"
        THEN exch[k].w.calls = 0 /\ exch[k].w.body = <<>>
        ELSE /\ exch[k].w.calls = 1
             /\ exch[k].w.header = exch[k].pre
             /\ exch[k].w.body = <<"fake response">>
             /\ exch[k].w.status = StatusOK

\* the shim has answered an OPTIONS request itself and has forwarded a GET
\* and a POST
C17_Witness ==
    \E i, j, k \in 1..Len(exch) :
        /\ exch[i].via = "CORS" /\ exch[i].method = "OPTIONS"
        /\ exch[i].w.calls = 0 /\ CORSHeaders(exch[i].w) # {}
        /\ exch[j].via = "CORS" /\ exch[j].method = "GET" /\ exch[j].w.calls = 1
        /\ exch[k].via = "CORS" /\ exch[k].method = "POST" /\ exch[k].w.calls = 1

\* C18 (as claimed): an annotation operation on one name leaves the value
\* and the presence of every other annotation unchanged, in its own store
\* and in every other store.
C18_OtherAnnotationsUnchanged ==
    [][\A sl \in Slots :
         sl # annOp'.slot => Content(ann'[sl]) = Content(ann[sl])]_vars

\* C19: GetOrAddAnnotation(name, d) on a store that has name returns the
\* value it holds and changes nothing; on a store that lacks name it stores
\* d under name, changes no other annotation and returns d.
C19_GetOrAdd ==
    [][annOp'.kind = "GetOrAdd" =>
         LET x == annOp'.slot IN
         IF annOp'.present
         THEN /\ ann' = ann
              /\ alias' = alias
              /\ annOp'.ret = Content(ann[x])
         ELSE /\ ann'[x].kind # "absent"
              /\ Content(ann'[x]) = annOp'.arg
              /\ annOp'.ret = annOp'.arg
              /\ \A sl \in Slots \ {x} : ann'[sl] = ann[sl]]_vars

\* a GetOrAddAnnotation that found a value other than the default it was
\* given
C19_Witness ==
    /\ annOp.kind = "GetOrAdd"
    /\ annOp.present
    /\ annOp.ret # annOp.arg
    /\ annOp.ret.kind = "bytes"

\* C20: after a run of successful Writes p1 .. pn through the writer of a
\* name that was absent, nil or held the byte slice b, that name holds b
\* followed by p1 .. pn, and the last Write returned len(pn).
C20_WritesConcatenate ==
    (annOp.kind = "Write" /\ ~annOp.err) =>
        /\ Content(ann[annOp.slot]) =
               [kind |-> "bytes", bytes |-> annOp.base.bytes \o annOp.written]
        /\ annOp.n = Len(annOp.arg.bytes)

\* two Writes in a row onto an annotation that was absent, and one Write
\* onto an annotation that held a byte slice
C20_Witness ==
    /\ annOp.kind = "Write"
    /\ ~annOp.err
    /\ \/ annOp.writes = 2 /\ annOp.base.kind = "absent" /\ annOp.written = <<2, 1>>
       \/ annOp.writes = 1 /\ annOp.base = [kind |-> "bytes", bytes |-> <<1>>]

\* C21: a Write through the writer of a name that holds a value of another
\* type than a byte slice returns 0 and an error, and changes no annotation
\* of any store.
C21_WriteOnNonBytesFails ==
    [][(annOp'.kind = "Write" /\ ann[annOp'.slot].kind = "string") =>
         /\ annOp'.err
         /\ annOp'.n = 0
         /\ ann' = ann
         /\ alias' = alias]_vars

\* a Write that failed on a string while another annotation held bytes
C21_Witness ==
    /\ annOp.kind = "Write"
    /\ annOp.err
    /\ ann[annOp.slot].kind = "string"
    /\ \E sl \in Slots : ann[sl].kind = "bytes"

\* the k-th smallest member of a set of indices
Kth(S, k) == CHOOSE i \in S : Cardinality({j \in S : j <= i}) = k

\* C22: after KeepNelReports has run on a batch, batch.Reports holds the
\* reports of type network-error it held before, all of them, in the order
\* they were in, and nothing else.
C22_KeepsExactlyNelReports ==
    pb.last = "KeepNelReports" =>
        LET nel == {i \in 1..Len(pb.before) : pb.before[i].ReportType = "network-error"}
        IN  /\ Len(pb.Reports) = Cardinality(nel)
            /\ \A k \in 1..Len(pb.Reports) : pb.Reports[k] = pb.before[Kth(nel, k)]

\* a batch with a report of another type between two NEL reports has been
\* filtered
C22_Witness ==
    /\ pb.last = "KeepNelReports"
    /\ Len(pb.before) = 3
    /\ pb.before[2].ReportType # "network-error"
    /\ Len(pb.Reports) = 2
    /\ pb.Reports[1] # pb.Reports[2]

\* C23: running KeepNelReports on a batch it has just run on changes
\* nothing.
C23_KeepNelIdempotent ==
    [][(pb.last = "KeepNelReports" /\ pb'.last = "KeepNelReports"
        /\ pb'.runs = pb.runs + 1) =>
           /\ pb'.Reports = pb.Reports
           /\ pb'.stdout = pb.stdout
           /\ pb'.TestResult = pb.TestResult]_vars

\* KeepNelReports has run twice, and nothing else, on a batch it kept two
\* reports of
C23_Witness ==
    /\ pb.last = "KeepNelReports"
    /\ pb.runs = 2
    /\ pb.stdout = <<>> /\ pb.TestResult = <<>>
    /\ Len(pb.before) = 2
    /\ Len(pb.Reports) = 2

\* what a sink has been given since it held before
Added(after, before) == SubSeq(after, Len(before) + 1, Len(after))

\* the lines the last run of the dumper wrote
Dumped == Added(pb.stdout, pb.stdoutBefore) \o Added(pb.TestResult, pb.TestResultBefore)

\* C24: DumpReportsAsCLF writes one line for each report of the batch, in
\* the order of the batch; the result field of the line is the status code
\* in decimal for a NEL report of type ok or http.error, the NEL type for
\* any other NEL report, and the report type in angle brackets for a report
\* that is not a NEL report.
C24_OneLinePerReport ==
    pb.last = "DumpReportsAsCLF" =>
        /\ Len(Dumped) = Len(pb.Reports)
        /\ pb.Reports = pb.before
        /\ \A k \in 1..Len(pb.Reports) :
             LET report == pb.Reports[k]
                 line == Dumped[k]
             IN  /\ line.URL = report.URL
                 /\ (report.ReportType = "network-error" /\ report.Type \in {"ok", "http.error"})
                        => line.result = Itoa(report.StatusCode)
                 /\ (report.ReportType = "network-error" /\ report.Type \notin {"ok", "http.error"})
                        => line.result = report.Type
                 /\ report.ReportType # "network-error"
                        => line.result = "<" \o report.ReportType \o ">"

\* a batch with the three kinds of report has been dumped
C24_Witness ==
    /\ pb.last = "DumpReportsAsCLF"
    /\ Len(Dumped) = 3
    /\ Dumped[1].result = "dns.unreachable"
    /\ Dumped[2].result = "<csp>"
    /\ Dumped[3].result = "404"

\* C25: the loader of DumpReportsAsCLF returns an error unless dest is
\* stdout or annotation; the processor it returns for stdout writes its
\* lines to the standard output, the one it returns for annotation to the
\* TestResult annotation of the batch.
C25_DumperDest ==
    /\ dumper.dest # "<none>" =>
           /\ (dumper.err # "nil") = (dumper.dest \notin {"stdout", "annotation"})
           /\ (dumper.err # "nil") = (dumper.Writer = "none")
    /\ pb.last = "DumpReportsAsCLF" =>
           /\ pb.by \in {"stdout", "annotation"}
           /\ pb.by = "stdout" =>
                  /\ Len(Added(pb.stdout, pb.stdoutBefore)) = Len(pb.Reports)
                  /\ pb.TestResult = pb.TestResultBefore
           /\ pb.by = "annotation" =>
                  /\ Len(Added(pb.TestResult, pb.TestResultBefore)) = Len(pb.Reports)
                  /\ pb.stdout = pb.stdoutBefore

\* a dumper loaded with dest = annotation has written to TestResult, one
\* with dest = stdout to the standard output, and an entry without dest has
\* been refused
C25_Witness ==
    /\ pb.last = "DumpReportsAsCLF"
    /\ pb.by = "annotation"
    /\ pb.stdout # <<>>
    /\ pb.TestResult = pb.stdout
    /\ dumper.dest = "<absent>"
    /\ dumper.err = "missing dest"

\* the two shapes a decoded report may have, given the object it was
\* decoded from
IsNelShape(r, obj) ==
    /\ r.ReportType = "network-error"
    /\ r.RawBody = NoBytes
    /\ obj.body.statusCode # -1 => r.StatusCode = obj.body.statusCode
    /\ obj.body.type # "<absent>" => r.Type = obj.body.type
    /\ obj.body.protocol # "<absent>" => r.Protocol = obj.body.protocol
IsRawShape(r, obj) ==
    /\ r.ReportType # "network-error"
    /\ r.StatusCode = 0 /\ r.Type = "" /\ r.Protocol = ""
    /\ r.RawBody = obj.body

\* C26: a decoded report either has ReportType network-error, an empty
\* RawBody and the typed fields set from its body, or has another
\* ReportType, zero typed fields and the body, byte for byte, in RawBody;
\* never both.
C26_DecodedShape ==
    codec.op = "Unmarshal" =>
        /\ codec.report.ReportType = codec.obj.type
        /\ IsNelShape(codec.report, codec.obj) \/ IsRawShape(codec.report, codec.obj)
        /\ ~(IsNelShape(codec.report, codec.obj) /\ IsRawShape(codec.report, codec.obj))

\* a report of another type has been decoded whose body, laid out over
\* several lines, has the members of a NEL body
C26_Witness ==
    /\ codec.op = "Unmarshal"
    /\ codec.report.ReportType = "another-error"
    /\ codec.obj.body.type = "ok"
    /\ codec.report.RawBody.layout = "indented"
    /\ codec.report.Type = ""

\* the codec invariant on a report by itself
CodecInvariant(r) ==
    IF r.ReportType = "network-error" THEN r.RawBody = NoBytes
    ELSE r.StatusCode = 0 /\ r.Type = "" /\ r.Protocol = ""

C30_SendAfterClosePanics ==
    [][\A r \in Reqs :
         (/\ req[r].pc = "serving" /\ req'[r].pc = "done"
          /\ req'[r].method = "POST"
          /\ req'[r].ctype = "application/reports+json"
          /\ req'[r].body = "valid"
          /\ closed[req[r].h]) =>
             /\ req'[r].ret = "panic"
             /\ batch' = batch
             /\ c' = c
             /\ worker' = worker]_vars

\* a valid upload has reached a pipeline that Close had closed, while the
\* queue of that pipeline had room
C30_Witness ==
    \E r \in Reqs :
        /\ Finished(r) /\ ValidUpload(r)
        /\ req[r].ret = "panic"
        /\ closed[req[r].h]
        /\ Len(c[req[r].h]) < bufferSize[req[r].h]
        /\ req[r].status = StatusNoContent

\* C28: with the simulated clock at T, a request reads the clock once when
\* its upload gets past the method and content-type checks and never
\* otherwise, the batch it hands to the pipeline has Time = T, every
\* processor sees the batch with Time = T, and no step of a worker, of Swap
\* or of Close reads the clock or changes the Time of a batch.
C28_ClockReadOnceAtIngress ==
    [][/\ \A r \in Reqs :
            /\ req'[r].pc = "done" /\ req'[r].h # None =>
                   req'[r].clock = IF req'[r].method = "POST"
                                      /\ req'[r].ctype = "application/reports+json"
                                   THEN 1 ELSE 0
            /\ req'[r].pc # "done" => req'[r].clock = 0
            /\ req[r].pc = "done" => req'[r].clock = req[r].clock
            /\ batch'[r].acc # None => (req'[r].clock = 1 /\ batch'[r].Time = Now)
            /\ batch[r].acc # None => batch'[r].Time = batch[r].Time
            /\ \A k \in 1..Len(batch'[r].calls) : batch'[r].calls[k].time = Now]_vars

\* a batch has gone through every processor of a pipeline that was closed
\* afterwards
C28_Witness ==
    \E r \in Reqs :
        /\ req[r].clock = 1
        /\ batch[r].done
        /\ Len(batch[r].calls) = MaxProcs
        /\ batch[r].acc \in closeReturned
        /\ \E q \in Reqs : req[q].pc = "done" /\ req[q].h # None /\ req[q].clock = 0

\* the processors batch b was run through, in order
RunThrough(b) == [k \in 1..Len(batch[b].calls) |-> batch[b].calls[k].proc]

\* C29 (as claimed): the processor list of a pipeline does not change once
\* the pipeline has accepted a batch, and all the batches a pipeline has
\* processed were run through the same processors.
C29_ProcessorListFixed ==
    [][\A p \in Pipelines :
         /\ (\E b \in Reqs : batch[b].acc = p) => processors'[p] = processors[p]
         /\ \A a, b \in Reqs :
              (batch'[a].acc = p /\ batch'[b].acc = p /\ batch'[a].done /\ batch'[b].done)
                  => RunThrough(a)' = RunThrough(b)']_vars

\* Pipeline.ServeHTTP of request r carrying a valid upload
ValidServe(r) ==
    /\ ReqServe(r)
    /\ req'[r].method = "POST"
    /\ req'[r].ctype = "application/reports+json"
    /\ req'[r].body = "valid"

\* the workers of pipeline p that are running: started and not yet exited
Running(p) == {w \in Workers : worker[p][w].pc \notin {"none", "exit"}}

\* C31: a request that has reached Pipeline.ServeHTTP with a valid upload
\* can always finish at once, whatever the queue holds and whatever the
\* workers are doing, and on a pipeline that is not closed the only results
\* are nil and ErrDropped; with the queue full and no worker at the receive
\* the result is ErrDropped.
C31_IngressNeverWaits ==
    \A r \in Reqs :
        req[r].pc = "serving" =>
            /\ ENABLED ValidServe(r)
            /\ ~closed[req[r].h] =>
                   ~ENABLED (ValidServe(r) /\ req'[r].ret \notin {"nil", "ErrDropped"})
            /\ (~closed[req[r].h] /\ QueueFull(req[r].h)) =>
                   ~ENABLED (ValidServe(r) /\ req'[r].ret # "ErrDropped")

\* a valid upload returned ErrDropped while the queue was full and every
\* worker of the pipeline was inside a processor, where they still are
C31_Witness ==
    \E r \in Reqs :
        /\ req[r].pc = "done" /\ req[r].ret = "ErrDropped" /\ req[r].full
        /\ Len(c[req[r].h]) = bufferSize[req[r].h]
        /\ \A w \in Running(req[r].h) : worker[req[r].h][w].pc = "proc"
        /\ batch[r] = NewBatch

\* Pipeline.Close of pipeline p has returned to call o, with the queue
\* drained and every worker gone
CloseReturned(o, p) ==
    /\ op[o].pc = "done" /\ op[o].res = "ok"
    /\ c[p] = <<>>
    /\ \A w \in Workers : worker[p][w].pc = "exit"
    /\ \A b \in Reqs : batch[b].acc = p => batch[b].done

\* C32: when the processor calls return, a Pipeline.Close that has closed
\* the queue (no ingress call being in progress then) eventually returns,
\* the workers having drained the queue and exited.
C32_CloseEventuallyReturns ==
    \A o \in Ops, p \in Pipelines :
        (op[o].pc = "wait" /\ op[o].old = p) ~> CloseReturned(o, p)

\* Close has returned on a pipeline that had accepted every upload it could
\* hold, all of them processed by now
C32_Witness ==
    \E o \in Ops, p \in Pipelines :
        /\ op[o].old = p /\ CloseReturned(o, p)
        /\ \A b \in Reqs : batch[b].acc = p /\ Len(batch[b].calls) = Len(processors[p])

\* whether sequence s begins with sequence t
StartsWith(s, t) == Len(t) <= Len(s) /\ \A k \in 1..Len(t) : s[k] = t[k]
Has(s, x) == \E k \in 1..Len(s) : s[k] = x

\* C33: ProcessReports checks the method, then the Content-Type, then
\* decodes the body, and answers with the first check that fails: any
\* non-POST request gets 405 whatever else it carries; a POST with another
\* Content-Type gets 400 with neither the clock read nor the body decoded;
\* a POST of the right type with a body that does not decode gets 400; the
\* rest get 204.
C33_ChecksInOrder ==
    \A k \in 1..Len(ingress) :
        LET x == ingress[k] IN
        /\ StartsWith(<<"Method", "Content-Type", "Now", "Decode", "204", "send">>, x.steps)
        /\ x.method # "POST" =>
               /\ x.status = StatusMethodNotAllowed /\ x.ret = "errMethod"
               /\ x.steps = <<"Method">>
        /\ (x.method = "POST" /\ x.ctype # "application/reports+json") =>
               /\ x.status = StatusBadRequest /\ x.ret = "errContentType"
               /\ ~Has(x.steps, "Decode") /\ ~Has(x.steps, "Now")
        /\ (x.method = "POST" /\ x.ctype = "application/reports+json") =>
               /\ Has(x.steps, "Decode")
               /\ x.status = (IF x.body = "valid" THEN StatusNoContent ELSE StatusBadRequest)
               /\ x.ret = (IF x.body = "valid" THEN "none" ELSE "errDecode")

\* a GET and a POST that both have the wrong Content-Type and a body that
\* does not decode: the first is answered 405, the second 400
C33_Witness ==
    \E j, k \in 1..Len(ingress) :
        /\ ingress[j].method = "GET" /\ ingress[k].method = "POST"
        /\ ingress[j].ctype = "application/json" /\ ingress[k].ctype = "application/json"
        /\ ingress[j].body = "garbled" /\ ingress[k].body = "garbled"
        /\ ingress[j].status = StatusMethodNotAllowed
        /\ ingress[k].status = StatusBadRequest

\* the calls on the HotSwap that have begun
Begun == {o \in Ops : op[o].pc # "new"}

\* only Swap has been called so far, and no pipeline was passed to it twice
SwapsOfFreshPipelines ==
    /\ \A o \in Begun : op[o].kind = "Swap"
    /\ \A o1, o2 \in Begun : (o1 # o2 /\ op[o1].arg # None) => op[o1].arg # op[o2].arg

\* C34: as long as the HotSwap has only seen ServeHTTP and Swap calls, each
\* Swap with a pipeline not installed before, a request that is inside a
\* pipeline finds its queue open, and no request has ended in the panic of a
\* send on a closed queue.
C34_NoSendAfterClose ==
    SwapsOfFreshPipelines =>
        \A r \in Reqs :
            /\ req[r].pc = "serving" => ~closed[req[r].h]
            /\ req[r].h # None => req[r].ret # "panic"

\* two Swaps, a valid upload accepted by the first pipeline, which has been
\* closed since, and one accepted by the second
C34_Witness ==
    /\ SwapsOfFreshPipelines
    /\ \E r1, r2 \in Reqs :
        /\ req[r1].ret = "nil" /\ req[r2].ret = "nil"
        /\ req[r1].h # req[r2].h
        /\ closed[req[r1].h] /\ ~closed[req[r2].h]
        /\ hc = req[r2].h

\* C35 (as claimed): a Swap or Close call that gets to invoke the Close of
\* the installed handler invokes it on a handler whose Close has not been
\* invoked before, so that no handler is closed twice.
C35_CloseAtMostOnce ==
    [][\A o \in Ops :
         (op[o].pc = "lock" /\ op'[o].pc = "wait" /\ hc # None) => ~closed[hc]]_vars

\* C36 (as claimed): a request that holds the read lock and is about to be
\* dispatched finds a handler installed, and no request has ended in a call
\* on the nil handler.
C36_HandlerInstalled ==
    \A r \in Reqs :
        /\ req[r].pc = "dispatch" => hc # None
        /\ req[r].pc = "done" => req[r].h # None

\* whether some processor has been called on batch b
ProcessorSaw(b) == batch[b].calls # <<>>

\* C37: a batch for which ProcessReports returned ErrDropped is in no queue,
\* in the hands of no worker, has been accepted by no pipeline, taken from
\* no queue and passed to no processor, in every state from then on.
C37_DroppedNeverProcessed ==
    \A r \in Reqs : req[r].ret = "ErrDropped" =>
        /\ \A p \in Pipelines : Occurs(c[p], r) = 0
        /\ Holders(r) = {}
        /\ batch[r].acc = None /\ batch[r].taken = 0 /\ batch[r].ticket = 0
        /\ ~ProcessorSaw(r) /\ batch[r].data = <<>> /\ ~batch[r].done

\* an upload was dropped; since then the batch that filled the queue has
\* gone through the processors and the pipeline has been closed and drained
C37_Witness ==
    \E r1, r2 \in Reqs :
        /\ req[r1].ret = "ErrDropped" /\ batch[r1] = NewBatch
        /\ batch[r2].acc = req[r1].h /\ batch[r2].done
        /\ req[r1].h \in closeReturned

\* the index an error message names: the one formatted into it, or the 0
\* that is part of the message text
NamedIndex(err) ==
    IF err.msg = "Processor config 0 must be an object" THEN 0 ELSE err.idx

\* C38 (as claimed): for a document that gets as far as the entries,
\* LoadFromConfig stops at the first entry that fails one of its checks or
\* whose factory fails: the error names the index of that entry, the lowest
\* index of a failing entry, and exactly the entries before it have had
\* their processors built and added.
C38_StopsAtLowestFailingIndex ==
    (load.p # None /\ Exhibits(load.doc) \cap {1, 2, 3} = {}) =>
        LET es == load.doc.entries
            failing == {k \in 1..Len(es) : EntryRank(es[k]) # 0}
        IN  IF failing = {} THEN load.err = NoError
            ELSE LET k == SetMin(failing) IN
                 /\ load.err.msg = Precedence[EntryRank(es[k])]
                 /\ NamedIndex(load.err) = k - 1
                 /\ Len(load.after) = Len(load.before) + (k - 1)
                 /\ \A j \in 1..(k - 1) :
                        load.after[Len(load.before) + j].config = es[j]

\* the batches pipeline p has accepted and not yet run through all its
\* processors
InFlight(p) == {b \in Reqs : batch[b].acc = p /\ ~batch[b].done}

\* C39: on an open pipeline built with buffer size 0, ProcessReports for a
\* valid upload returns nil exactly when some worker is blocked at the
\* receive when the send is attempted, and ErrDropped otherwise; the batch
\* goes straight to a worker, never into the queue, and the batches accepted
\* and not yet completed are never more than the workers that are running.
C39_UnbufferedAcceptsOnRendezvous ==
    [][\A p \in Pipelines : (Built(p) /\ bufferSize[p] = 0) =>
         /\ \A r \in Reqs :
              (/\ req[r].pc = "serving" /\ req[r].h = p /\ req'[r].pc = "done"
               /\ ValidUpload(r)' /\ ~closed[p]) =>
                  /\ (req'[r].ret = "nil") = (Parked(p) # {})
                  /\ (req'[r].ret = "ErrDropped") = (Parked(p) = {})
                  /\ (req'[r].ret = "nil") = (batch'[r].acc = p)
         /\ c'[p] = <<>>
         /\ Cardinality(InFlight(p)') <= Cardinality(Running(p))]_vars

\* an unbuffered pipeline has handed one upload to a worker that was waiting
\* and dropped another while every worker was busy
C39_Witness ==
    \E r1, r2 \in Reqs :
        /\ req[r1].ret = "nil" /\ r1 \in InFlight(req[r1].h)
        /\ req[r1].h = req[r2].h /\ bufferSize[req[r1].h] = 0
        /\ req[r2].ret = "ErrDropped" /\ req[r2].full
        /\ Cardinality(InFlight(req[r1].h)) = Cardinality(Running(req[r1].h))

====
